---- MODULE Spec2Model ----
(***************************************************************************)
(* A model of the mmq store (pkg/store), its retrieval helpers and the     *)
(* query-expansion cache of the retriever (package rag).                   *)
(*                                                                         *)
(* Every db.Exec / tx is one atomic step.  IndexDocument and Cleanup run   *)
(* several auto-commit statements, so each of them is a short process      *)
(* whose statements interleave with the other operations on the shared     *)
(* database handle.                                                        *)
(***************************************************************************)
EXTENDS Integers, Sequences, FiniteSets, TLC

VARIABLES
    content,          \* table content: rows [hash, doc]
    documents,        \* table documents: rows [id, collection, path, title, hash, active]
    documents_fts,    \* FTS5 table: rows [rowid, filepath, title, body]
    collections,      \* table collections: set of names (primary key)
    content_vectors,  \* table content_vectors: rows [hash, seq, embedding]
    vectors_vec,      \* vec0 table: rows [hash_seq, embedding]
    vecDim,           \* dimension of vectors_vec, 0 while the table does not exist
    nextId,           \* AUTOINCREMENT counter of documents.id
    llm_cache,        \* table llm_cache: rows [hash, result]
    ixPc,             \* position of the IndexDocument call in flight
    ixDoc,            \* its argument and the result of its existence check
    clPc,             \* position of the Cleanup call in flight
    last,             \* the last completed operation, whether it returned an
                      \* error, and for a rename the new name
    hist,             \* what callers have observed of the cache (history)
    rrf,              \* inputs and outputs of a ReciprocalRankFusion call
    dense,            \* arguments and result of a SearchVector call
    ret,              \* arguments and outcome of a Retriever.Retrieve call
    memories,         \* table memories: rows [id, type, content, embedding, ...]
    recall,           \* arguments and result of a memory Manager call
    stats,            \* cache bookkeeping: successful sets, removed entries
    chunker,          \* a ChunkDocument call: arguments, loop position, chunks
    run,              \* arguments and outcome of a GenerateEmbeddings call
    lex,              \* arguments and result of a SearchFTS call
    prefs,            \* the clock of the preference calls and, for every
                      \* (category, key), the value recorded last
    model             \* the model runtime: mutex holder, loaded model, the
                      \* operations working on the model, each call's position

vars == <<content, documents, documents_fts, collections, content_vectors,
          vectors_vec, vecDim, nextId, llm_cache, ixPc, ixDoc, clPc, last,
          hist, rrf, dense, ret, memories, recall, stats, chunker, run, lex,
          prefs, model>>

\* The variables of the retriever, the memory manager and the cache counters.
extVars == <<ret, memories, recall, stats>>

\* The variables of the chunker, the embedding run and the model runtime.
auxVars == <<chunker, run, lex, prefs, model>>

storeVars == <<content, documents, documents_fts, collections,
               content_vectors, vectors_vec, vecDim, nextId>>

-----------------------------------------------------------------------------
(* Bounds of the model *)

MaxId == 2        \* documents.id values handed out: 1..MaxId
MaxSeq == 0       \* chunk sequence numbers used by the embed step: 0..MaxSeq

(* Input alphabets *)

Collections == {"a", "b"}
Paths == {"p", "q"}
Titles == {"t"}
Bodies == {"x", "y"}
Embeddings == {<<1, 0>>, <<0, 1>>, <<1, 0, 0>>}
NoDoc == [collection |-> "", path |-> "", title |-> "", body |-> "", exists |-> FALSE]

-----------------------------------------------------------------------------
(* Pure helpers *)

\* sha256 of the body, hex encoded: injective on the bodies of the model and
\* of one fixed length, as every digest is.
computeHash(body) == "hashof" \o body

Hashes == {computeHash(b) : b \in Bodies}

\* fmt.Sprintf("%s_%d", hash, seq)
HashSeq(hash, seq) == hash \o "_" \o ToString(seq)

\* SQL: hash_seq LIKE hash || '_%'  ('_' is any one character, '%' any string)
LikeHashPrefix(hashSeq, hash) ==
    /\ Len(hashSeq) >= Len(hash) + 1
    /\ SubSeq(hashSeq, 1, Len(hash)) = hash

\* SQL: collection || '/' || path
FilePath(collection, path) == collection \o "/" \o path

ContentHashes(cont) == {c.hash : c \in cont}

\* FOREIGN KEY (hash) REFERENCES content(hash), with PRAGMA foreign_keys = ON
ForeignKeyOff(hash, cont) == TRUE
ForeignKeyOk(hash, cont) == hash \in ContentHashes(cont)

-----------------------------------------------------------------------------
(* Triggers that keep documents_fts in step with documents *)

FtsProject(new, cont) ==
    {[rowid |-> new.id, filepath |-> FilePath(new.collection, new.path),
      title |-> new.title, body |-> c.doc] : c \in {x \in cont : x.hash = new.hash}}

documents_ai(fts, new, cont) == fts \cup FtsProject(new, cont)

documents_au_keep(fts, old, new, cont) ==
    {r \in fts : r.rowid # old.id} \cup FtsProject(new, cont)
documents_au(fts, old, new, cont) ==
    {r \in fts : r.rowid # old.id}
        \cup (IF new.active THEN FtsProject(new, cont) ELSE {})

documents_ad(fts, old) == {r \in fts : r.rowid # old.id}

\* An UPDATE of several rows fires documents_au once per row; changes holds
\* the pairs <<old row, new row>>.  Row ids are unique, so the order is
\* immaterial.
RECURSIVE FireUpdate(_, _, _)
FireUpdate(fts, changes, cont) ==
    IF changes = {} THEN fts
    ELSE LET ch == CHOOSE x \in changes : TRUE
         IN FireUpdate(documents_au(fts, ch[1], ch[2], cont), changes \ {ch}, cont)

RECURSIVE FireDelete(_, _)
FireDelete(fts, olds) ==
    IF olds = {} THEN fts
    ELSE LET o == CHOOSE x \in olds : TRUE
         IN FireDelete(documents_ad(fts, o), olds \ {o})

-----------------------------------------------------------------------------
(* Documents *)

DocAt(docs, c, p) == {d \in docs : d.collection = c /\ d.path = p}

\* INSERT INTO documents ... ON CONFLICT(collection, path) DO UPDATE SET
\* title, hash, modified_at, active = 1.  The statement fails as a whole when
\* the foreign key on hash is violated.
UpsertDocument(docs, fts, cont, id, c, p, t, h) ==
    LET olds == DocAt(docs, c, p)
        fresh == [id |-> id, collection |-> c, path |-> p, title |-> t,
                  hash |-> h, active |-> TRUE]
        upd(o) == [o EXCEPT !.title = t, !.hash = h, !.active = TRUE]
    IN  IF ~ForeignKeyOk(h, cont)
        THEN [documents |-> docs, fts |-> fts, nextId |-> id, err |-> TRUE]
        ELSE IF olds = {}
        THEN [documents |-> docs \cup {fresh},
              fts |-> documents_ai(fts, fresh, cont),
              nextId |-> id + 1, err |-> FALSE]
        ELSE [documents |-> (docs \ olds) \cup {upd(o) : o \in olds},
              fts |-> FireUpdate(fts, {<<o, upd(o)>> : o \in olds}, cont),
              nextId |-> id, err |-> FALSE]

\* IndexDocument, statement 1: SELECT EXISTS(SELECT 1 FROM content WHERE hash = ?)
IndexDocumentCheck(c, p, t, b) ==
    /\ ixPc = "idle"
    /\ nextId <= MaxId
    /\ ixPc' = "checked"
    /\ ixDoc' = [collection |-> c, path |-> p, title |-> t, body |-> b,
                 exists |-> computeHash(b) \in ContentHashes(content)]
    /\ UNCHANGED <<auxVars, storeVars, llm_cache, clPc, last, hist, rrf, dense, extVars>>

\* IndexDocument, statement 2: INSERT OR IGNORE INTO content, when !exists
IndexDocumentContent ==
    /\ ixPc = "checked"
    /\ ixPc' = "content"
    /\ content' = IF ixDoc.exists \/ computeHash(ixDoc.body) \in ContentHashes(content)
                  THEN content
                  ELSE content \cup {[hash |-> computeHash(ixDoc.body), doc |-> ixDoc.body]}
    /\ UNCHANGED <<auxVars, documents, documents_fts, collections, content_vectors,
                   vectors_vec, vecDim, nextId, llm_cache, ixDoc, clPc, last,
                   hist, rrf, dense, extVars>>

\* IndexDocument, statement 3: the upsert of the document row
IndexDocumentUpsert ==
    /\ ixPc = "content"
    /\ LET r == UpsertDocument(documents, documents_fts, content, nextId,
                               ixDoc.collection, ixDoc.path, ixDoc.title,
                               computeHash(ixDoc.body))
       IN  /\ documents' = r.documents
           /\ documents_fts' = r.fts
           /\ nextId' = r.nextId
           /\ last' = [op |-> "index", arg |-> "", err |-> r.err]
    /\ ixPc' = "idle"
    /\ ixDoc' = NoDoc
    /\ UNCHANGED <<auxVars, content, collections, content_vectors, vectors_vec, vecDim,
                   llm_cache, clPc, hist, rrf, dense, extVars>>

\* WHERE (id = ? OR hash = ? OR path = ?): the one string argument is compared
\* with all three columns (the integer id by its decimal text).
MatchesIdent(d, ident) ==
    ToString(d.id) = ident \/ d.hash = ident \/ d.path = ident

Idents == Paths \cup Hashes \cup {ToString(i) : i \in 1..MaxId}

\* DeleteDocument: UPDATE documents SET active = 0 WHERE (...) AND active = 1
DeleteDocument(ident) ==
    LET olds == {d \in documents : MatchesIdent(d, ident) /\ d.active}
        upd(o) == [o EXCEPT !.active = FALSE]
    IN  /\ documents' = (documents \ olds) \cup {upd(o) : o \in olds}
        /\ documents_fts' = FireUpdate(documents_fts, {<<o, upd(o)>> : o \in olds}, content)
        /\ last' = [op |-> "delete", arg |-> "", err |-> (olds = {})]
        /\ UNCHANGED <<auxVars, content, collections, content_vectors, vectors_vec,
                       vecDim, nextId, llm_cache, ixPc, ixDoc, clPc, hist, rrf,
                       dense, extVars>>

-----------------------------------------------------------------------------
(* Collections *)

CreateCollection(name) ==
    /\ collections' = collections \cup {name}
    /\ last' = [op |-> "create", arg |-> "", err |-> (name \in collections)]
    /\ UNCHANGED <<auxVars, content, documents, documents_fts, content_vectors,
                   vectors_vec, vecDim, nextId, llm_cache, ixPc, ixDoc, clPc,
                   hist, rrf, dense, extVars>>

\* RemoveCollection: not found unless the collection exists; then one
\* transaction deactivates its documents and deletes its row.
RemoveCollection(name) ==
    LET olds == {d \in documents : d.collection = name}
        upd(o) == [o EXCEPT !.active = FALSE]
    IN  /\ IF name \in collections
           THEN /\ documents' = (documents \ olds) \cup {upd(o) : o \in olds}
                /\ documents_fts' = FireUpdate(documents_fts, {<<o, upd(o)>> : o \in olds}, content)
                /\ collections' = collections \ {name}
           ELSE UNCHANGED <<documents, documents_fts, collections>>
        /\ last' = [op |-> "remove", arg |-> "", err |-> (name \notin collections)]
        /\ UNCHANGED <<auxVars, content, content_vectors, vectors_vec, vecDim, nextId,
                       llm_cache, ixPc, ixDoc, clPc, hist, rrf, dense, extVars>>

\* UNIQUE(collection, path): moving the rows of old to new collides when a
\* row of new already holds one of their paths.
RenameConflict(docs, old, new) ==
    \E d1 \in docs, d2 \in docs :
        d1.collection = old /\ d2.collection = new /\ d1.path = d2.path

\* The transaction of RenameCollection.  A failing statement makes the
\* function return, and the deferred tx.Rollback() undoes the statements
\* before it.
RenameTxNoRollback(colls, docs, fts, cont, old, new) ==
    LET olds == {d \in docs : d.collection = old}
        upd(o) == [o EXCEPT !.collection = new]
        renamed == (colls \ {old}) \cup {new}
    IN  IF new \in colls
        THEN [collections |-> colls, documents |-> docs, fts |-> fts, err |-> TRUE]
        ELSE IF RenameConflict(docs, old, new)
        THEN [collections |-> renamed, documents |-> docs, fts |-> fts, err |-> TRUE]
        ELSE [collections |-> renamed,
              documents |-> (docs \ olds) \cup {upd(o) : o \in olds},
              fts |-> FireUpdate(fts, {<<o, upd(o)>> : o \in olds}, cont), err |-> FALSE]
RenameTx(colls, docs, fts, cont, old, new) ==
    LET olds == {d \in docs : d.collection = old}
        upd(o) == [o EXCEPT !.collection = new]
    IN  IF new \in colls \/ RenameConflict(docs, old, new)
        THEN [collections |-> colls, documents |-> docs, fts |-> fts, err |-> TRUE]
        ELSE [collections |-> (colls \ {old}) \cup {new},
              documents |-> (docs \ olds) \cup {upd(o) : o \in olds},
              fts |-> FireUpdate(fts, {<<o, upd(o)>> : o \in olds}, cont), err |-> FALSE]

\* RenameCollection: the two existence checks, then the transaction.
RenameCollection(old, new) ==
    LET r == IF old \notin collections \/ new \in collections
             THEN [collections |-> collections, documents |-> documents,
                   fts |-> documents_fts, err |-> TRUE]
             ELSE RenameTx(collections, documents, documents_fts, content, old, new)
    IN  /\ collections' = r.collections
        /\ documents' = r.documents
        /\ documents_fts' = r.fts
        /\ last' = [op |-> "rename", arg |-> new, err |-> r.err]
        /\ UNCHANGED <<auxVars, content, content_vectors, vectors_vec, vecDim, nextId,
                       llm_cache, ixPc, ixDoc, clPc, hist, rrf, dense, extVars>>

-----------------------------------------------------------------------------
(* Maintenance: Cleanup runs five statements, each committed on its own *)

deleteLLMCache(cache) == {}

deleteInactiveDocuments(docs) == {d \in docs : d.active}

\* DELETE FROM content WHERE hash NOT IN (SELECT DISTINCT hash FROM documents)
cleanupOrphanedContent(cont, docs) ==
    {c \in cont : c.hash \in {d.hash : d \in docs}}

\* DELETE FROM content_vectors WHERE hash NOT IN (SELECT DISTINCT hash FROM content)
cleanupOrphanedVectors(cv, cont) ==
    {v \in cv : v.hash \in ContentHashes(cont)}

CleanupCache ==
    /\ clPc = "idle"
    /\ llm_cache' = deleteLLMCache(llm_cache)
    /\ hist' = [hist EXCEPT !.written = <<>>, !.answered = {}, !.stored = {}]
    /\ clPc' = "docs"
    /\ UNCHANGED <<auxVars, storeVars, ixPc, ixDoc, last, rrf, dense, extVars>>

CleanupDocuments ==
    /\ clPc = "docs"
    /\ documents' = deleteInactiveDocuments(documents)
    /\ documents_fts' = FireDelete(documents_fts, documents \ documents')
    /\ clPc' = "content"
    /\ UNCHANGED <<auxVars, content, collections, content_vectors, vectors_vec, vecDim,
                   nextId, llm_cache, ixPc, ixDoc, last, hist, rrf, dense, extVars>>

CleanupContent ==
    /\ clPc = "content"
    /\ content' = cleanupOrphanedContent(content, documents)
    /\ clPc' = "vectors"
    /\ UNCHANGED <<auxVars, documents, documents_fts, collections, content_vectors,
                   vectors_vec, vecDim, nextId, llm_cache, ixPc, ixDoc, last,
                   hist, rrf, dense, extVars>>

\* cleanupOrphanedVectors, then VACUUM (which changes no row)
CleanupVectors ==
    /\ clPc = "vectors"
    /\ content_vectors' = cleanupOrphanedVectors(content_vectors, content)
    /\ clPc' = "idle"
    /\ last' = [op |-> "cleanup", arg |-> "", err |-> FALSE]
    /\ UNCHANGED <<auxVars, content, documents, documents_fts, collections, vectors_vec,
                   vecDim, nextId, llm_cache, ixPc, ixDoc, hist, rrf, dense, extVars>>

-----------------------------------------------------------------------------
(* Embeddings *)

\* ensureVectorTable: CREATE VIRTUAL TABLE ... float[dimensions] when absent
ensureVectorTable(dim, dimensions) == IF dim = 0 THEN dimensions ELSE dim

\* The transaction of StoreEmbedding: INSERT OR REPLACE into content_vectors,
\* then INSERT OR REPLACE into vectors_vec, which takes vectors of the
\* table's dimension only.  An error returns through the deferred Rollback.
StoreEmbeddingTxNoRollback(cv, vec, dim, hash, seq, embedding) ==
    LET cv2 == {v \in cv : ~(v.hash = hash /\ v.seq = seq)}
                  \cup {[hash |-> hash, seq |-> seq, embedding |-> embedding]}
        vec2 == {v \in vec : v.hash_seq # HashSeq(hash, seq)}
                  \cup {[hash_seq |-> HashSeq(hash, seq), embedding |-> embedding]}
    IN  IF Len(embedding) # dim
        THEN [content_vectors |-> cv2, vectors_vec |-> vec, err |-> TRUE]
        ELSE [content_vectors |-> cv2, vectors_vec |-> vec2, err |-> FALSE]
StoreEmbeddingTx(cv, vec, dim, hash, seq, embedding) ==
    LET cv2 == {v \in cv : ~(v.hash = hash /\ v.seq = seq)}
                  \cup {[hash |-> hash, seq |-> seq, embedding |-> embedding]}
        vec2 == {v \in vec : v.hash_seq # HashSeq(hash, seq)}
                  \cup {[hash_seq |-> HashSeq(hash, seq), embedding |-> embedding]}
    IN  IF Len(embedding) # dim
        THEN [content_vectors |-> cv, vectors_vec |-> vec, err |-> TRUE]
        ELSE [content_vectors |-> cv2, vectors_vec |-> vec2, err |-> FALSE]

StoreEmbedding(hash, seq, embedding) ==
    LET dim == ensureVectorTable(vecDim, Len(embedding))
        r == StoreEmbeddingTx(content_vectors, vectors_vec, dim, hash, seq, embedding)
    IN  /\ vecDim' = dim
        /\ content_vectors' = r.content_vectors
        /\ vectors_vec' = r.vectors_vec
        /\ last' = [op |-> "store", arg |-> "", err |-> r.err]
        /\ UNCHANGED <<auxVars, content, documents, documents_fts, collections, nextId,
                       llm_cache, ixPc, ixDoc, clPc, hist, rrf, dense, extVars>>

\* DeleteEmbeddings: one transaction over both tables; the second DELETE
\* fails while vectors_vec does not exist.
DeleteEmbeddings(hash) ==
    /\ IF vecDim = 0
       THEN UNCHANGED <<content_vectors, vectors_vec>>
       ELSE /\ content_vectors' = {v \in content_vectors : v.hash # hash}
            /\ vectors_vec' = {v \in vectors_vec : ~LikeHashPrefix(v.hash_seq, hash)}
    /\ last' = [op |-> "unembed", arg |-> "", err |-> (vecDim = 0)]
    /\ UNCHANGED <<auxVars, content, documents, documents_fts, collections, vecDim,
                   nextId, llm_cache, ixPc, ixDoc, clPc, hist, rrf, dense, extVars>>

-----------------------------------------------------------------------------
(* Text and vectors *)

IsSeparator(ch) == ch \in {"/", " ", ".", ","}

\* The words of a text: maximal runs of non-separator characters
\* (strings.Fields on a query, the unicode61 tokenizer on an indexed column).
RECURSIVE Words(_)
Words(str) ==
    IF Len(str) = 0 THEN {}
    ELSE IF IsSeparator(SubSeq(str, 1, 1)) THEN Words(SubSeq(str, 2, Len(str)))
    ELSE LET ends == {i \in 1..Len(str) :
                         /\ \A j \in 1..i : ~IsSeparator(SubSeq(str, j, j))
                         /\ (i = Len(str) \/ IsSeparator(SubSeq(str, i + 1, i + 1)))}
             e == CHOOSE i \in ends : TRUE
         IN {SubSeq(str, 1, e)} \cup Words(SubSeq(str, e + 1, Len(str)))

HasPrefix(str, prefix) ==
    Len(str) >= Len(prefix) /\ SubSeq(str, 1, Len(prefix)) = prefix

\* buildFTS5Query: every word of the query as a quoted prefix term, joined by AND
buildFTS5Query(query) == Words(query)

\* documents_fts MATCH ?: every term is the prefix of a token of some column
FtsMatch(row, terms) ==
    \A term \in terms :
        \E tok \in Words(row.filepath) \cup Words(row.title) \cup Words(row.body) :
            HasPrefix(tok, term)

Dot(a, b) ==
    LET RECURSIVE Sum(_)
        Sum(i) == IF i = 0 THEN 0 ELSE a[i] * b[i] + Sum(i - 1)
    IN Sum(Len(a))

\* math.Sqrt on the squared norms of the model's vectors, all perfect squares
Sqrt(n) == CHOOSE r \in 0..n : r * r = n

\* vectordb.CosineDist, in units of 1/25: 25 * (1 - dot / (|a| * |b|)),
\* kept within [0, 2]; a zero vector is at distance 1.  -1 stands for the
\* error returned when the dimensions differ or the vectors are empty.
CosineDist(a, b) ==
    IF Len(a) # Len(b) \/ Len(a) = 0 THEN -1
    ELSE IF Dot(a, a) = 0 \/ Dot(b, b) = 0 THEN 25
    ELSE LET distance == 25 - (25 * Dot(a, b)) \div (Sqrt(Dot(a, a)) * Sqrt(Dot(b, b)))
         IN IF distance < 0 THEN 0 ELSE IF distance > 50 THEN 50 ELSE distance

-----------------------------------------------------------------------------
(* Retrieval and lookup: what each read returns in the current state *)

Key(d) == FilePath(d.collection, d.path)

InCollection(d, collectionFilter) ==
    collectionFilter = "" \/ d.collection = collectionFilter

\* SearchFTS: the rows of its SELECT before ORDER BY bm25_score LIMIT ?
SearchFTSHits(docs, fts, cont, query, collectionFilter) ==
    IF buildFTS5Query(query) = {} THEN {}
    ELSE {d \in docs :
            /\ \E f \in fts : f.rowid = d.id /\ FtsMatch(f, buildFTS5Query(query))
            /\ d.hash \in ContentHashes(cont)
            /\ d.active
            /\ InCollection(d, collectionFilter)}

VectorRow(v, d, embedding) ==
    [hash |-> v.hash, seq |-> v.seq, collection |-> d.collection,
     path |-> d.path, distance |-> CosineDist(embedding, v.embedding)]

\* SearchVector: the rows of its SELECT, each with its cosine distance to the
\* query vector; rows whose distance cannot be computed are skipped.
SearchVectorRowsAnyDoc(docs, cv, cont, embedding, collectionFilter) ==
    {VectorRow(j[1], j[2], embedding) :
        j \in {x \in cv \X docs :
                 /\ x[2].hash = x[1].hash
                 /\ x[1].hash \in ContentHashes(cont)
                 /\ InCollection(x[2], collectionFilter)
                 /\ CosineDist(embedding, x[1].embedding) # -1}}
SearchVectorRows(docs, cv, cont, embedding, collectionFilter) ==
    {VectorRow(j[1], j[2], embedding) :
        j \in {x \in cv \X docs :
                 /\ x[2].hash = x[1].hash
                 /\ x[1].hash \in ContentHashes(cont)
                 /\ x[2].active
                 /\ InCollection(x[2], collectionFilter)
                 /\ CosineDist(embedding, x[1].embedding) # -1}}

\* vectors_vec MATCH ? AND k = ?: the rows that can be among the k nearest
\* (none when the table does not exist or the query has another dimension)
VecNearest(vec, dim, embedding, k) ==
    IF dim = 0 \/ Len(embedding) # dim THEN {}
    ELSE {v \in vec :
            Cardinality({w \in vec : CosineDist(embedding, w.embedding)
                                       < CosineDist(embedding, v.embedding)}) < k}

\* SearchVectorDocuments: the documents its second SELECT joins to the
\* nearest vectors, before the cut to limit
SearchVectorDocumentsHits(docs, cv, vec, dim, cont, embedding, limit, collectionFilter) ==
    LET near == {v.hash_seq : v \in VecNearest(vec, dim, embedding, limit * 3)}
    IN {d \in docs :
          /\ d.active
          /\ d.hash \in ContentHashes(cont)
          /\ InCollection(d, collectionFilter)
          /\ \E v \in cv : v.hash = d.hash /\ HashSeq(v.hash, v.seq) \in near}

\* GetDocument: WHERE (d.id = ? OR d.hash = ? OR d.path = ?) AND d.active = 1 LIMIT 1
GetDocument(docs, cont, ident) ==
    {d \in docs : MatchesIdent(d, ident) /\ d.active /\ d.hash \in ContentHashes(cont)}

\* ListDocuments
ListDocuments(docs, collectionFilter) ==
    {d \in docs : d.active /\ InCollection(d, collectionFilter)}

\* ListDocumentsByPath: all documents, those of a collection, or those at or
\* under a path of a collection
ListDocumentsByPath(docs, collection, path) ==
    {d \in docs :
        /\ d.active
        /\ InCollection(d, collection)
        /\ (collection = "" \/ path = "" \/ d.path = path
              \/ HasPrefix(d.path, path \o "/"))}

\* GetDocumentByPath
GetDocumentByPath(docs, cont, collection, path) ==
    {d \in docs : /\ d.active /\ d.collection = collection /\ d.path = path
                  /\ d.hash \in ContentHashes(cont)}

DocidLen == 6

\* GetDocumentByID: d.hash LIKE docid || '%', for a docid of six characters
\* or more
GetDocumentByID(docs, cont, docID) ==
    IF Len(docID) < DocidLen THEN {}
    ELSE {d \in docs : d.active /\ HasPrefix(d.hash, docID)
                       /\ d.hash \in ContentHashes(cont)}

-----------------------------------------------------------------------------
(* Chunk-level dense search *)

MaxLimit == 2       \* the limit argument of a search: 1..MaxLimit
DenseVectors == {<<1, 0>>, <<3, 4>>, <<0, 1>>}

NoSearch == [embedding |-> <<>>, limit |-> 0, seen |-> <<>>, results |-> <<>>]

\* seen: for every hash among the candidates, its smallest distance
SeenDistances(rows) ==
    [hash \in {r.hash : r \in rows} |->
        CHOOSE dist \in {r.distance : r \in {x \in rows : x.hash = hash}} :
            \A r \in rows : r.hash = hash => dist <= r.distance]

\* SearchVector.  The candidates are deduplicated into the map seen; the loop
\* over the map, which visits its entries in no particular order, stops once
\* limit results are collected; those are then sorted by descending score
\* (1 - distance, here 25 - distance in units of 1/25).
SearchVector(embedding, limit, collectionFilter) ==
    \E seen \in {SeenDistances(SearchVectorRows(documents, content_vectors,
                                                content, embedding, collectionFilter))} :
      \E visited \in SUBSET DOMAIN seen :
        /\ Cardinality(visited) =
              IF Cardinality(DOMAIN seen) < limit THEN Cardinality(DOMAIN seen)
              ELSE limit
        /\ \E order \in [1..Cardinality(visited) -> visited] :
             /\ \A i \in DOMAIN order, j \in DOMAIN order :
                   i < j => order[i] # order[j] /\ seen[order[i]] <= seen[order[j]]
             /\ dense' = [embedding |-> embedding, limit |-> limit, seen |-> seen,
                          results |-> [i \in DOMAIN order |->
                                         [id |-> order[i], score |-> 25 - seen[order[i]]]]]
        /\ last' = [op |-> "search", arg |-> "", err |-> FALSE]
        /\ UNCHANGED <<auxVars, storeVars, llm_cache, ixPc, ixDoc, clPc, hist, rrf, extVars>>

-----------------------------------------------------------------------------
(* The LLM cache and cached query expansion *)

Queries == {"X", "Y"}
Operations == {"expandQuery", "rerank"}
Results == {"", "v"}

\* CacheKey: the digest of operation + ":" + JSON(params), for the params
\* map {"query": query}; distinct inputs have distinct digests.
CacheKey(operation, query) ==
    "sha256(" \o operation \o ":" \o "{\"query\":\"" \o query \o "\"}" \o ")"

CacheKeys == {CacheKey(o, q) : o \in Operations, q \in Queries}

\* GetCachedResult: the result of the row with this key, "" when there is none
GetCachedResultMiss(cache, key) == ""
GetCachedResult(cache, key) ==
    IF \E r \in cache : r.hash = key
    THEN (CHOOSE r \in cache : r.hash = key).result
    ELSE ""

\* INSERT OR REPLACE INTO llm_cache: hash is the primary key
InsertOnly(cache, key, result) ==
    cache \cup {[hash |-> key, result |-> result]}
InsertOrReplace(cache, key, result) ==
    {r \in cache : r.hash # key} \cup {[hash |-> key, result |-> result]}

\* What was set, answered and stored since the cache was last emptied; the
\* expand_query calls of the latest query.
NoHist == [written |-> <<>>, answered |-> {}, stored |-> {}, calls |-> 0]

\* The queries whose cached expansion sits under this key
QueriesOf(key) == {q \in Queries : CacheKey("expandQuery", q) = key}

\* SetCachedResult; ok = FALSE is a write the database refuses
SetCachedResult(key, result, ok) ==
    /\ llm_cache' = IF ok THEN InsertOrReplace(llm_cache, key, result) ELSE llm_cache
    /\ hist' = IF ok
               THEN [hist EXCEPT !.written = (key :> result) @@ hist.written,
                                 !.answered = hist.answered \ QueriesOf(key),
                                 !.stored = hist.stored \ QueriesOf(key)]
               ELSE hist
    /\ last' = [op |-> "set", arg |-> "", err |-> ~ok]
    /\ UNCHANGED <<auxVars, storeVars, ixPc, ixDoc, clPc, rrf, dense, extVars>>

ClearCache ==
    /\ llm_cache' = {}
    /\ hist' = [hist EXCEPT !.written = <<>>, !.answered = {}, !.stored = {}]
    /\ last' = [op |-> "clear", arg |-> "", err |-> FALSE]
    /\ UNCHANGED <<auxVars, storeVars, ixPc, ixDoc, clPc, rrf, dense, extVars>>

\* The cache operations once more, with the bookkeeping of an observer: the
\* successful sets, those among them that added a key, the entries removed
MaxSets == 3

\* GetCacheStats: SELECT COUNT(*) FROM llm_cache
GetCacheStatsNonEmpty(cache) == Cardinality({r \in cache : r.result # ""})

GetCacheStats(cache) == Cardinality(cache)

SetCachedResultCounted(key, result, ok) ==
    /\ stats.sets < MaxSets
    /\ llm_cache' = IF ok THEN InsertOrReplace(llm_cache, key, result) ELSE llm_cache
    /\ stats' = IF ok
                THEN [stats EXCEPT
                        !.sets = @ + 1,
                        !.added = IF key \in {r.hash : r \in llm_cache}
                                  THEN @ ELSE @ + 1]
                ELSE stats
    /\ last' = [op |-> "set", arg |-> "", err |-> ~ok]
    /\ UNCHANGED <<auxVars, storeVars, ixPc, ixDoc, clPc, hist, rrf, dense, ret,
                   memories, recall>>

ClearCacheCounted ==
    /\ llm_cache' = {}
    /\ stats' = [stats EXCEPT !.removed = @ + GetCacheStats(llm_cache)]
    /\ last' = [op |-> "clear", arg |-> "", err |-> FALSE]
    /\ UNCHANGED <<auxVars, storeVars, ixPc, ixDoc, clPc, hist, rrf, dense, ret,
                   memories, recall>>

\* The first statement of Cleanup: DELETE FROM llm_cache
CleanupCacheCounted ==
    /\ clPc = "idle"
    /\ llm_cache' = deleteLLMCache(llm_cache)
    /\ stats' = [stats EXCEPT !.removed = @ + GetCacheStats(llm_cache)]
    /\ clPc' = "docs"
    /\ UNCHANGED <<auxVars, storeVars, ixPc, ixDoc, last, hist, rrf, dense, ret,
                   memories, recall>>

\* json.Marshal of a list of QueryExpansion, weights in tenths
MarshalExpansion(x) ==
    "{\"Type\":\"" \o x.type \o "\",\"Text\":\"" \o x.text
        \o "\",\"Weight\":" \o ToString(x.weight) \o "}"

RECURSIVE MarshalItems(_)
MarshalItems(list) ==
    IF Len(list) = 0 THEN ""
    ELSE IF Len(list) = 1 THEN MarshalExpansion(list[1])
    ELSE MarshalExpansion(list[1]) \o "," \o MarshalItems(Tail(list))

Marshal(list) == "[" \o MarshalItems(list) \o "]"

\* The lists an expand_query capability returns for a query
Expansions(query) ==
    {<<>>,
     <<[type |-> "lex", text |-> query, weight |-> 10],
       [type |-> "vec", text |-> query, weight |-> 9]>>}

\* json.Unmarshal into []QueryExpansion: the lists that marshal to this text
Unmarshal(text) ==
    {list \in UNION {Expansions(q) : q \in Queries} : Marshal(list) = text}

\* The outcomes of one ExpandQuery call: an error, or a list
ExpandQuery(query) ==
    {[err |-> TRUE, expansions |-> <<>>]}
        \cup {[err |-> FALSE, expansions |-> list] : list \in Expansions(query)}

\* expandQueryWithCache: a cached list that parses is returned without a
\* capability call; otherwise the capability is called and a non-empty list
\* is written to the cache, a refused write going unnoticed.
expandQueryWithCache(cache, query, outcome, setOk) ==
    LET cacheKey == CacheKey("expandQuery", query)
        cached == GetCachedResult(cache, cacheKey)
        parsed == IF cached = "" THEN {} ELSE Unmarshal(cached)
    IN  IF parsed # {}
        THEN [expansions |-> CHOOSE list \in parsed : TRUE,
              calls |-> 0, cache |-> cache, wrote |-> FALSE, err |-> FALSE]
        ELSE IF outcome.err
        THEN [expansions |-> <<>>, calls |-> 1, cache |-> cache,
              wrote |-> FALSE, err |-> TRUE]
        ELSE IF Len(outcome.expansions) > 0 /\ setOk
        THEN [expansions |-> outcome.expansions, calls |-> 1,
              cache |-> InsertOrReplace(cache, cacheKey, Marshal(outcome.expansions)),
              wrote |-> TRUE, err |-> FALSE]
        ELSE [expansions |-> outcome.expansions, calls |-> 1, cache |-> cache,
              wrote |-> FALSE, err |-> FALSE]

\* Retrieve with opts.ExpandQuery: the expansion, then the searches; a failed
\* or empty expansion falls back to the search of the query itself.
\* searchOk = FALSE is a search that returns an error to the caller.
Retrieve(query, outcome, setOk, searchOk) ==
    \E r \in {expandQueryWithCache(llm_cache, query, outcome, setOk)},
       key \in {CacheKey("expandQuery", query)} :
        /\ llm_cache' = r.cache
        /\ hist' = [written |-> IF r.wrote
                                THEN (key :> GetCachedResult(r.cache, key)) @@ hist.written
                                ELSE hist.written,
                    answered |-> IF searchOk THEN hist.answered \cup {query}
                                 ELSE hist.answered,
                    stored |-> IF r.wrote THEN hist.stored \cup {query}
                               ELSE hist.stored,
                    calls |-> r.calls]
        /\ last' = [op |-> "query", arg |-> query, err |-> ~searchOk]
        /\ UNCHANGED <<auxVars, storeVars, ixPc, ixDoc, clPc, rrf, dense, extVars>>

-----------------------------------------------------------------------------
(* Reciprocal rank fusion *)

MaxLists == 2       \* result lists handed to one fusion
MaxListLen == 2     \* results per list
DefaultRRFK == 60

\* Search results: an ID and a Path, the ID possibly empty
FusionResults == {[id |-> "A", path |-> "p"], [id |-> "", path |-> "q"],
                  [id |-> "B", path |-> "r"]}
FusionWeights == {0, 1, 2}
FusionKs == {0, 1}

ResultLists == UNION {[1..n -> FusionResults] : n \in 0..MaxListLen}

\* key := result.ID; if key == "" { key = result.Path }
ResultKey(result) == IF result.id = "" THEN result.path ELSE result.id

\* Scores are kept as integers: the score times 100 * (k+1) * ... * (k+MaxListLen),
\* which every term weight / (k + rank + 1) and both bonuses divide into.
RECURSIVE RankProduct(_, _)
RankProduct(k, n) == IF n = 0 THEN 1 ELSE (k + n) * RankProduct(k, n - 1)

ScoreUnit(k) == 100 * RankProduct(k, MaxListLen)

\* weight := 1.0; if listIdx < len(weights) { weight = weights[listIdx] }
WeightOf(weights, listIdx) ==
    IF listIdx <= Len(weights) THEN weights[listIdx] ELSE 1

\* The sum of weight / (k + rank + 1) over the places of key in one list
RECURSIVE ListContribution(_, _, _, _, _)
ListContribution(list, weight, k, key, i) ==
    IF i = 0 THEN 0
    ELSE (IF ResultKey(list[i]) = key
          THEN (weight * ScoreUnit(k)) \div (k + i)
          ELSE 0) + ListContribution(list, weight, k, key, i - 1)

RECURSIVE SumContributions(_, _, _, _, _)
SumContributions(resultLists, weights, k, key, n) ==
    IF n = 0 THEN 0
    ELSE ListContribution(resultLists[n], WeightOf(weights, n), k, key,
                          Len(resultLists[n]))
           + SumContributions(resultLists, weights, k, key, n - 1)

FusionKeys(resultLists) ==
    UNION {{ResultKey(resultLists[n][i]) : i \in 1..Len(resultLists[n])} :
              n \in 1..Len(resultLists)}

\* topRank: the best (0-based) rank of key over all lists
TopRank(resultLists, key) ==
    LET ranks == {i - 1 : i \in {j \in 1..MaxListLen + 1 :
                      \E n \in 1..Len(resultLists) :
                          /\ j <= Len(resultLists[n])
                          /\ ResultKey(resultLists[n][j]) = key}}
    IN CHOOSE r \in ranks : \A o \in ranks : r <= o

\* The top-rank bonus: 0.05 for a first place, 0.02 for a second or third
TopRankBonus(topRank, k) ==
    IF topRank = 0 THEN 5 * RankProduct(k, MaxListLen)
    ELSE IF topRank <= 2 THEN 2 * RankProduct(k, MaxListLen)
    ELSE 0

rrfScore(resultLists, weights, k, key) ==
    SumContributions(resultLists, weights, k, key, Len(resultLists))
        + TopRankBonus(TopRank(resultLists, key), k)

\* ReciprocalRankFusion: the rankings (of result keys) it can return.  The
\* candidates leave a map in any order and sort.Slice orders them by
\* descending score, so results of equal score come out in any order.
ReciprocalRankFusion(resultLists, weights, k) ==
    LET kk == IF k = 0 THEN DefaultRRFK ELSE k
        keys == FusionKeys(resultLists)
        n == Cardinality(keys)
        score == [key \in keys |-> rrfScore(resultLists, weights, kk, key)]
    IN {ranking \in [1..n -> keys] :
          /\ \A i \in 1..n, j \in 1..n : i # j => ranking[i] # ranking[j]
          /\ \A i \in 1..n, j \in 1..n :
                i < j => score[ranking[i]] >= score[ranking[j]]}

NoFusion == [resultLists |-> <<>>, weights |-> <<>>, k |-> 0, extra |-> <<>>,
             done |-> FALSE, fused |-> {}, fusedWithExtra |-> {}]

\* One fusion of the lists, and one of the same lists with the extra list
\* appended at weight zero
Fuse ==
    /\ ~rrf.done
    /\ rrf' = [rrf EXCEPT
                 !.done = TRUE,
                 !.fused = ReciprocalRankFusion(rrf.resultLists, rrf.weights, rrf.k),
                 !.fusedWithExtra =
                     ReciprocalRankFusion(Append(rrf.resultLists, rrf.extra),
                                          Append(rrf.weights, 0), rrf.k)]
    /\ UNCHANGED <<auxVars, storeVars, llm_cache, ixPc, ixDoc, clPc, last, hist, dense, extVars>>

-----------------------------------------------------------------------------
(* The retriever's result pipeline (package rag): routes, query expansion,  *)
(* min-score filter, rerank blending, truncation                            *)

\* The score 1.0 in the integer unit of the fusion scores at the default k
RetrieveUnit == ScoreUnit(DefaultRRFK)

RetrieveTexts == {"q", "e"}         \* the caller's query, an expansion's text
Strategies == {"fts", "vector", "hybrid"}
MaxRetrieveLimit == 2

SearchResult(id, path, score) == [id |-> id, path |-> path, score |-> score]

\* What the store answers to one search: no hit, one hit, two hits, best first
StoreLists ==
    {<<>>,
     <<SearchResult("A", "p", (3 * RetrieveUnit) \div 4)>>,
     <<SearchResult("B", "r", (3 * RetrieveUnit) \div 4),
       SearchResult("A", "p", RetrieveUnit \div 2)>>}

\* What the store answers to the text of an expansion
ExpansionLists ==
    {<<>>,
     <<SearchResult("A", "p", (3 * RetrieveUnit) \div 4),
       SearchResult("B", "r", RetrieveUnit \div 2)>>}

\* The outcome of a retrieval step: an error, or a result list.  routes holds
\* the outcome of every expansion's route when the step ran expansions.
Failed == [err |-> TRUE, results |-> <<>>, routes |-> <<>>]
Ok(results) == [err |-> FALSE, results |-> results, routes |-> <<>>]

\* r.store.SearchFTS(query, opts.Limit*2, opts.Collection)
retrieveFTS(env, query) ==
    IF env.storeOk THEN Ok(env.fts[query]) ELSE Failed

\* embedding.Generate, then r.store.SearchVector
retrieveVector(env, query) ==
    IF ~env.embedOk THEN Failed
    ELSE IF env.storeOk THEN Ok(env.vec[query]) ELSE Failed

\* The result the fusion keeps for a key: the first one met, list by list
FirstResult(resultLists, key) ==
    LET places == {p \in UNION {{<<n, i>> : i \in 1..Len(resultLists[n])} :
                                   n \in 1..Len(resultLists)} :
                      ResultKey(resultLists[p[1]][p[2]]) = key}
        first == CHOOSE p \in places :
                     \A o \in places :
                         p[1] < o[1] \/ (p[1] = o[1] /\ p[2] <= o[2])
    IN resultLists[first[1]][first[2]]

\* ReciprocalRankFusion with the results it returns: result.Score = rrfScore
FusedResults(resultLists, weights, k) ==
    LET kk == IF k = 0 THEN DefaultRRFK ELSE k
    IN {[i \in 1..Len(ranking) |->
            [FirstResult(resultLists, ranking[i]) EXCEPT
                !.score = rrfScore(resultLists, weights, kk, ranking[i])]] :
        ranking \in ReciprocalRankFusion(resultLists, weights, k)}

\* retrieveHybrid: both routes must succeed, then their lists are fused
retrieveHybrid(env, query, opts) ==
    LET ftsResults == retrieveFTS(env, query)
        vecResults == retrieveVector(env, query)
    IN IF ftsResults.err THEN {Failed}
       ELSE IF vecResults.err THEN {Failed}
       ELSE {Ok(f) : f \in FusedResults(<<ftsResults.results, vecResults.results>>,
                                        opts.rrfWeights, opts.rrfK)}

retrieveSingleQuery(env, query, opts) ==
    IF opts.strategy = "fts" THEN {retrieveFTS(env, query)}
    ELSE IF opts.strategy = "vector" THEN {retrieveVector(env, query)}
    ELSE retrieveHybrid(env, query, opts)

\* switch exp.Type: "lex" -> FTS, "vec"/"hyde" -> vector, default -> hybrid
Route(env, exp, opts) ==
    IF exp.type = "lex" THEN {retrieveFTS(env, exp.text)}
    ELSE IF exp.type \in {"vec", "hyde"} THEN {retrieveVector(env, exp.text)}
    ELSE retrieveHybrid(env, exp.text, opts)

\* The weight appended next to a surviving list
SurvivorWeightFirst(expansions, n) == expansions[1].weight

SurvivorWeight(expansions, n) == expansions[n].weight

\* allResultLists and weights after the first n expansions, together with the
\* outcome of each route
RECURSIVE Survivors(_, _, _, _)
Survivors(env, expansions, opts, n) ==
    IF n = 0 THEN {[lists |-> <<>>, weights |-> <<>>, routes |-> <<>>]}
    ELSE {IF ~o.err /\ Len(o.results) > 0
          THEN [lists |-> Append(s.lists, o.results),
                weights |-> Append(s.weights, SurvivorWeight(expansions, n)),
                routes |-> Append(s.routes, o)]
          ELSE [s EXCEPT !.routes = Append(s.routes, o)] :
          s \in Survivors(env, expansions, opts, n - 1),
          o \in Route(env, expansions[n], opts)}

\* retrieveWithExpansion: fall back to the original query when the expansion
\* fails, is empty, or leaves no list
retrieveWithExpansion(env, query, opts) ==
    IF env.expansions.err \/ Len(env.expansions.expansions) = 0
    THEN retrieveSingleQuery(env, query, opts)
    ELSE UNION {IF Len(s.lists) = 0
                THEN {[o EXCEPT !.routes = s.routes] :
                          o \in retrieveSingleQuery(env, query, opts)}
                ELSE {[Ok(f) EXCEPT !.routes = s.routes] :
                          f \in FusedResults(s.lists, s.weights, opts.rrfK)} :
                s \in Survivors(env, env.expansions.expansions, opts,
                                Len(env.expansions.expansions))}

\* All the orders sort.Slice can leave a set of results in: descending score
ByScore(results) ==
    LET n == Cardinality(results)
    IN {seq \in [1..n -> results] :
          /\ \A i \in 1..n, j \in 1..n : i # j => seq[i] # seq[j]
          /\ \A i \in 1..n, j \in 1..n : i < j => seq[i].score >= seq[j].score}

RerankDocLimit == 40

\* rrfWeight in twentieths: 0.75 up to rank 3, 0.60 up to rank 10, else 0.40
RrfWeight(rrfRank) ==
    IF rrfRank <= 3 THEN 15 ELSE IF rrfRank <= 10 THEN 12 ELSE 8

\* blendedScore := rrfWeight*(1/rrfRank) + (1-rrfWeight)*rr.Score
BlendedScore(rrfRank, rrScore) ==
    (RrfWeight(rrfRank) * RetrieveUnit) \div (20 * rrfRank)
        + ((20 - RrfWeight(rrfRank)) * rrScore) \div 20

\* rerank: the candidates the reranker answered for, rescored and re-sorted.
\* env.rerank.scores maps the IDs of the response to their scores.
rerank(env, results) ==
    IF Len(results) = 0 THEN {Ok(results)}
    ELSE IF env.rerank.err THEN {Failed}
    ELSE LET n == IF Len(results) > RerankDocLimit
                  THEN RerankDocLimit ELSE Len(results)
             candidates == SubSeq(results, 1, n)
             reranked ==
                 {[candidates[i] EXCEPT
                     !.score = BlendedScore(i, env.rerank.scores[candidates[i].id])] :
                  i \in {j \in 1..n : candidates[j].id \in DOMAIN env.rerank.scores}}
         IN {Ok(seq) : seq \in ByScore(reranked)}

\* if opts.MinScore > 0: keep the results with Score >= MinScore
MinScoreFilter(results, minScore) ==
    LET Keep(r) == r.score >= minScore
    IN IF minScore > 0 THEN SelectSeq(results, Keep) ELSE results

Truncate(results, limit) ==
    IF Len(results) > limit THEN SubSeq(results, 1, limit) ELSE results

toContexts(results) ==
    [i \in 1..Len(results) |->
        [source |-> results[i].path, relevance |-> results[i].score]]

\* Retrieve: what the call can return, with the results of its search stage
RetrieveOutcomes(env, query, opts) ==
    UNION {IF found.err
           THEN {[err |-> TRUE, found |-> found, contexts |-> <<>>]}
           ELSE LET filtered == MinScoreFilter(found.results, opts.minScore)
                IN {IF r.err
                    THEN [err |-> TRUE, found |-> found, contexts |-> <<>>]
                    ELSE [err |-> FALSE, found |-> found,
                          contexts |-> toContexts(Truncate(r.results, opts.limit))] :
                    r \in IF opts.rerank /\ Len(filtered) > 0
                          THEN rerank(env, filtered) ELSE {Ok(filtered)}} :
           found \in IF opts.expandQuery
                     THEN retrieveWithExpansion(env, query, opts)
                     ELSE retrieveSingleQuery(env, query, opts)}

\* The surroundings of one call: what the store holds for each text, whether
\* the capabilities work, what the expansion and the reranker answer
Expansion(type, text, weight) == [type |-> type, text |-> text, weight |-> weight]

NoExpansions == [err |-> TRUE, expansions |-> <<>>]

ExpansionOutcomes ==
    {NoExpansions,
     [err |-> FALSE, expansions |-> <<>>],
     [err |-> FALSE, expansions |-> <<Expansion("lex", "e", 2), Expansion("vec", "e", 1)>>],
     [err |-> FALSE, expansions |-> <<Expansion("hyde", "e", 1), Expansion("lex", "q", 2)>>],
     [err |-> FALSE, expansions |-> <<Expansion("lex", "e", 1), Expansion("other", "q", 2)>>]}

NoRerank == [err |-> TRUE, scores |-> <<>>]

RerankOutcomes ==
    {NoRerank,
     [err |-> FALSE, scores |-> [id \in {"A", "B"} |-> 0]],
     [err |-> FALSE, scores |-> [id \in {"B"} |-> RetrieveUnit]]}

MinScores == {0, RetrieveUnit \div 20, RetrieveUnit \div 2}

NoRetrieve == [done |-> FALSE]

\* One call of Retriever.Retrieve(query, opts)
RetrieveResults(env, opts) ==
    /\ ~ret.done
    /\ \E out \in RetrieveOutcomes(env, "q", opts) :
           ret' = [done |-> TRUE, env |-> env, opts |-> opts, err |-> out.err,
                   found |-> out.found, contexts |-> out.contexts]
    /\ UNCHANGED <<auxVars, storeVars, llm_cache, ixPc, ixDoc, clPc, last, hist, rrf,
                   dense, memories, recall, stats>>

-----------------------------------------------------------------------------
(* Memories (package memory over the table memories of the store) *)

UUIDLen == 36
MaxTime == 2          \* timestamps and the clock, in steps of one time unit
MaxMemories == 2      \* rows of the table memories while recalls are studied

\* The ids uuid.New() can draw
UUIDs == {"aa100000-0000-4000-8000-000000000000",
          "aa200000-0000-4000-8000-000000000000",
          "b0000000-0000-4000-8000-000000000000"}

\* The ids a caller can supply: full ids and shorter prefixes
MemoryIdents == UUIDs \cup {"aa1", "aa", "b", "c"}

MemoryTypes == {"fact", "preference", "episodic"}
Contents == {"", "x", "y"}
Importances == {0, 2}     \* Memory.Importance in halves: unset, 1.0
Halflives == {1, 2}       \* RecallOptions.DecayHalflife in time units

\* llm.Embed followed by normalizeVector: a unit vector, in fifths
Embed(text) == IF text = "x" THEN <<5, 0>> ELSE <<3, 4>>

\* EmbeddingGenerator.Generate: an error on the empty text or when the
\* capability fails
Generate(text, embedOk) ==
    IF text = "" \/ ~embedOk
    THEN [err |-> TRUE, embedding |-> <<>>]
    ELSE [err |-> FALSE, embedding |-> Embed(text)]

\* INSERT INTO memories: id is the primary key
InsertMemory(rows, id, memType, text, timestamp, importance, embedding) ==
    rows \cup {[id |-> id, type |-> memType, content |-> text,
                timestamp |-> timestamp, importance |-> importance,
                embedding |-> embedding]}

\* Manager.Store: embed the content, default the importance to 0.5, insert
\* under a fresh UUID
Store(id, memType, text, timestamp, importance, embedOk, bound) ==
    /\ Cardinality(memories) < bound
    /\ id \notin {r.id : r \in memories}
    /\ LET g == Generate(text, embedOk)
           imp == IF importance = 0 THEN 1 ELSE importance
       IN /\ memories' = IF g.err THEN memories
                         ELSE InsertMemory(memories, id, memType, text,
                                           timestamp, imp, g.embedding)
          /\ recall' = [op |-> "store", id |-> id, content |-> text,
                        err |-> g.err, before |-> memories, results |-> <<>>]
    /\ UNCHANGED <<auxVars, storeVars, llm_cache, ixPc, ixDoc, clPc, last, hist, rrf,
                   dense, ret, stats>>

\* UPDATE memories SET content, importance, embedding WHERE id = ?: the id is
\* compared as a whole, and no row matching is no error
UpdateMemoryKeepEmbedding(rows, id, text, importance, embedding) ==
    {IF r.id = id
     THEN [r EXCEPT !.content = text, !.importance = importance]
     ELSE r : r \in rows}

UpdateMemory(rows, id, text, importance, embedding) ==
    {IF r.id = id
     THEN [r EXCEPT !.content = text, !.importance = importance,
                    !.embedding = embedding]
     ELSE r : r \in rows}

\* Manager.Update: embed the new content, then UpdateMemory
Update(id, text, importance, embedOk) ==
    /\ LET g == Generate(text, embedOk)
       IN /\ memories' = IF g.err THEN memories
                         ELSE UpdateMemory(memories, id, text, importance,
                                           g.embedding)
          /\ recall' = [op |-> "update", id |-> id, content |-> text,
                        err |-> g.err, before |-> memories, results |-> <<>>]
    /\ UNCHANGED <<auxVars, storeVars, llm_cache, ixPc, ixDoc, clPc, last, hist, rrf,
                   dense, ret, stats>>

\* The rows DeleteMemory removes: id LIKE prefix% for an id shorter than a
\* UUID, id = ? otherwise
DeleteMatches(rows, id) ==
    IF Len(id) < UUIDLen THEN {r \in rows : HasPrefix(r.id, id)}
    ELSE {r \in rows : r.id = id}

\* Manager.Delete / Store.DeleteMemory: an error when no row was affected
Delete(id) ==
    /\ memories' = memories \ DeleteMatches(memories, id)
    /\ recall' = [op |-> "delete", id |-> id, content |-> "",
                  err |-> DeleteMatches(memories, id) = {},
                  before |-> memories, results |-> <<>>]
    /\ UNCHANGED <<auxVars, storeVars, llm_cache, ixPc, ixDoc, clPc, last, hist, rrf,
                   dense, ret, stats>>

\* Store.GetMemoryByID: SELECT ... WHERE id = ?, sql.ErrNoRows when absent
GetMemoryByID(rows, id) ==
    LET matches == {r \in rows : r.id = id}
    IN IF matches = {} THEN [err |-> TRUE, results |-> <<>>]
       ELSE [err |-> FALSE, results |-> <<CHOOSE r \in matches : TRUE>>]

\* Manager.GetByID
GetByID(id) ==
    /\ recall' = [op |-> "get", id |-> id, content |-> "",
                  err |-> GetMemoryByID(memories, id).err,
                  before |-> memories,
                  results |-> GetMemoryByID(memories, id).results]
    /\ UNCHANGED <<auxVars, storeVars, llm_cache, ixPc, ixDoc, clPc, last, hist, rrf,
                   dense, ret, memories, stats>>

\* cosineDist of the memory search, in units of 1/25: distance 1 when the
\* lengths differ or a norm is zero
cosineDist(a, b) ==
    IF Len(a) # Len(b) THEN 25
    ELSE IF Dot(a, a) = 0 \/ Dot(b, b) = 0 THEN 25
    ELSE 25 - (25 * Dot(a, b)) \div (Sqrt(Dot(a, a)) * Sqrt(Dot(b, b)))

\* Relevance is kept as an integer.  The search returns it in units of 1/25;
\* the decay step multiplies it by the decay factor in millionths, and the
\* importance step by the multiplier in halves, so a recalled relevance is
\* the relevance times 25 * 10^6 * 2 whatever the options.
DecayUnit == 1000000
SimilarityUnit == 25 * DecayUnit * 2

\* math.Exp(-h/2) to six decimals
Exp(h) ==
    CASE h = 0 -> 1000000
      [] h = 1 -> 606531
      [] h = 2 -> 367879
      [] h = 3 -> 223130
      [] h = 4 -> 135335
      [] h = 5 -> 82085
      [] h = 6 -> 49787
      [] h = 7 -> 30197
      [] h = 8 -> 18316

\* All the orders a sort can leave a set of rows in, given the key to sort
\* by in descending order as pairs <<row, key>>
Ordered(keyed) ==
    LET n == Cardinality(keyed)
    IN {[i \in 1..n |-> seq[i][1]] :
          seq \in {q \in [1..n -> keyed] :
                     /\ \A i \in 1..n, j \in 1..n : i # j => q[i] # q[j]
                     /\ \A i \in 1..n, j \in 1..n :
                           i < j => q[i][2] >= q[j][2]}}

\* SearchMemories: the rows of the given types (all when none is given), by
\* ascending distance to the query, the first limit of them; Relevance is
\* 1 - distance
SearchMemories(rows, queryEmbedding, limit, memoryTypes) ==
    LET selected == IF memoryTypes = {} THEN rows
                    ELSE {r \in rows : r.type \in memoryTypes}
        Result(r) == [id |-> r.id, type |-> r.type, content |-> r.content,
                      timestamp |-> r.timestamp, importance |-> r.importance,
                      relevance |-> 25 - cosineDist(queryEmbedding, r.embedding)]
    IN {Truncate(seq, limit) :
          seq \in Ordered({<<Result(r), Result(r).relevance>> : r \in selected})}

\* decayFactor := math.Exp(-age.Hours() / halflife.Hours())
DecayFactor(now, timestamp, halflife) ==
    Exp(((now - timestamp) * 2) \div halflife)

\* applyTimeDecay: every memory's relevance is multiplied by the decay factor
applyTimeDecay(mem, now, halflife) ==
    [mem EXCEPT !.relevance =
        mem.relevance * DecayFactor(now, mem.timestamp, halflife)]

\* weightByImportance: the multiplier is 0.5 + importance
weightByImportance(mem) ==
    [mem EXCEPT !.relevance = mem.relevance * (1 + mem.importance)]

MinRelevanceFilter(mems, minRelevance) ==
    LET Keep(m) == m.relevance >= minRelevance
    IN IF minRelevance > 0 THEN SelectSeq(mems, Keep) ELSE mems

\* Manager.Recall after the query embedding: search, decay, weight, sort,
\* filter, truncate
RecallResults(rows, queryEmbedding, opts, now) ==
    UNION {LET Adjust(m) ==
                  LET d == IF opts.applyDecay
                           THEN applyTimeDecay(m, now, opts.decayHalflife)
                           ELSE [m EXCEPT !.relevance = m.relevance * DecayUnit]
                  IN IF opts.weightByImportance THEN weightByImportance(d)
                     ELSE [d EXCEPT !.relevance = d.relevance * 2]
               adjusted == {Adjust(found[i]) : i \in 1..Len(found)}
           IN {Truncate(MinRelevanceFilter(seq, opts.minRelevance), opts.limit) :
                  seq \in Ordered({<<m, m.relevance>> : m \in adjusted})} :
           found \in SearchMemories(rows, queryEmbedding, opts.limit * 2,
                                    opts.memoryTypes)}

\* Manager.Recall(query, opts) at time now
Recall(query, opts, embedOk, now) ==
    /\ recall.op # "recall"
    /\ LET g == Generate(query, embedOk)
       IN \E results \in IF g.err THEN {<<>>}
                         ELSE RecallResults(memories, g.embedding, opts, now) :
              recall' = [op |-> "recall", query |-> query, opts |-> opts,
                         now |-> now, err |-> g.err, before |-> memories,
                         results |-> results]
    /\ UNCHANGED <<auxVars, storeVars, llm_cache, ixPc, ixDoc, clPc, last, hist, rrf,
                   dense, ret, memories, stats>>

-----------------------------------------------------------------------------
(* Chunking: pkg/store/chunking.go.  Offsets are Go's: 0-based, and a slice  *)
(* str[from:to] holds the characters from+1..to of the TLA+ string.          *)

ChunkSizeChars == 3200
ChunkOverlapChars == 480

MaxBodyLen == 4        \* characters of a chunked body
MaxChunkSize == 3      \* the chunkSize argument: 1..MaxChunkSize
MaxChunkOverlap == 3   \* the chunkOverlap argument: 0..MaxChunkOverlap

Chars == {"a", " ", "\n", "."}

RECURSIVE ChunkBodies(_)
ChunkBodies(n) ==
    IF n = 0 THEN {""}
    ELSE LET shorter == ChunkBodies(n - 1)
         IN shorter \cup {t \o c : t \in {s \in shorter : Len(s) = n - 1}, c \in Chars}

Slice(str, from, to) == SubSeq(str, from + 1, to)

\* strings.LastIndex: the last offset at which substr occurs in str, or -1
LastIndex(str, substr) ==
    LET hits == {i \in 0..(Len(str) - Len(substr)) :
                     Slice(str, i, i + Len(substr)) = substr}
    IN IF hits = {} THEN -1 ELSE CHOOSE i \in hits : \A j \in hits : j <= i

IsSpace(ch) == ch \in {" ", "\n"}

\* strings.TrimSpace
RECURSIVE TrimSpace(_)
TrimSpace(str) ==
    IF str = "" THEN ""
    ELSE IF IsSpace(Slice(str, 0, 1)) THEN TrimSpace(Slice(str, 1, Len(str)))
    ELSE IF IsSpace(Slice(str, Len(str) - 1, Len(str)))
         THEN TrimSpace(Slice(str, 0, Len(str) - 1))
    ELSE str

sentenceEndings == <<".\n", "!\n", "?\n", ". ", "! ", "? ">>

RECURSIVE LastEnding(_, _, _)
LastEnding(searchRange, n, maxIdx) ==
    IF n > Len(sentenceEndings) THEN maxIdx
    ELSE LET idx == LastIndex(searchRange, sentenceEndings[n])
         IN LastEnding(searchRange, n + 1, IF idx > maxIdx THEN idx ELSE maxIdx)

findBreakPoint(str, start, end) ==
    IF end >= Len(str) THEN Len(str)
    ELSE LET s7 == start + ((end - start) * 7) \div 10
             searchStart == IF s7 < start THEN start ELSE s7
             searchRange == Slice(str, searchStart, end)
             para == LastIndex(searchRange, "\n\n")
             maxIdx == LastEnding(searchRange, 1, -1)
             line == LastIndex(searchRange, "\n")
             word == LastIndex(searchRange, " ")
         IN IF para # -1 THEN searchStart + para + 2
            ELSE IF maxIdx # -1 THEN searchStart + maxIdx + 1
            ELSE IF line # -1 THEN searchStart + line + 1
            ELSE IF word # -1 THEN searchStart + word + 1
            ELSE end

EndPos(str, charPos, chunkSize) ==
    IF charPos + chunkSize > Len(str) THEN Len(str) ELSE charPos + chunkSize

Chunk(text, pos) == [Text |-> text, Pos |-> pos]

\* the chunk one iteration appends: none when the text is blank
Emitted(str, charPos, breakPos) ==
    LET chunkText == Slice(str, charPos, breakPos)
    IN IF Len(TrimSpace(chunkText)) > 0 THEN <<Chunk(chunkText, charPos)>> ELSE <<>>

NextPosNoGuard(charPos, breakPos, chunkOverlap) == breakPos - chunkOverlap

\* the start of the next chunk: the overlap is dropped when it would not advance
NextPos(charPos, breakPos, chunkOverlap) ==
    LET nextPos == breakPos - chunkOverlap
    IN IF nextPos <= charPos THEN breakPos ELSE nextPos

EffectiveSize(chunkSize) == IF chunkSize = 0 THEN ChunkSizeChars ELSE chunkSize
EffectiveOverlap(chunkOverlap) ==
    IF chunkOverlap = 0 THEN ChunkOverlapChars ELSE chunkOverlap

NoChunker == [pc |-> "idle"]

\* ChunkDocument up to the loop: defaults applied, nothing emitted
ChunkDocumentEnter(str, chunkSize, chunkOverlap) ==
    [pc |-> "loop", content |-> str, chunkSize |-> EffectiveSize(chunkSize),
     chunkOverlap |-> EffectiveOverlap(chunkOverlap), charPos |-> 0,
     chunks |-> <<>>]

\* One pass of the loop of ChunkDocument, its condition included.  A negative
\* slice bound is a runtime panic.
ChunkDocumentLoop ==
    /\ chunker.pc = "loop"
    /\ IF chunker.charPos < 0
       THEN chunker' = [chunker EXCEPT !.pc = "panic"]
       ELSE IF chunker.charPos >= Len(chunker.content)
       THEN chunker' = [chunker EXCEPT !.pc = "done"]
       ELSE LET endPos == EndPos(chunker.content, chunker.charPos, chunker.chunkSize)
                breakPos == findBreakPoint(chunker.content, chunker.charPos, endPos)
            IN chunker' =
                 [chunker EXCEPT
                    !.chunks = @ \o Emitted(chunker.content, chunker.charPos, breakPos),
                    !.charPos = NextPos(chunker.charPos, breakPos, chunker.chunkOverlap),
                    !.pc = IF breakPos >= Len(chunker.content) THEN "done" ELSE "loop"]
    /\ UNCHANGED <<storeVars, llm_cache, ixPc, ixDoc, clPc, last, hist, rrf,
                   dense, extVars, run, lex, prefs, model>>

\* ChunkDocument as a function: the chunks the loop emits from charPos on
RECURSIVE ChunksFrom(_, _, _, _)
ChunksFrom(str, chunkSize, chunkOverlap, charPos) ==
    IF charPos >= Len(str) THEN <<>>
    ELSE LET breakPos == findBreakPoint(str, charPos, EndPos(str, charPos, chunkSize))
         IN Emitted(str, charPos, breakPos) \o
            (IF breakPos >= Len(str) THEN <<>>
             ELSE ChunksFrom(str, chunkSize, chunkOverlap,
                             NextPos(charPos, breakPos, chunkOverlap)))

ChunkDocument(str, chunkSize, chunkOverlap) ==
    ChunksFrom(str, EffectiveSize(chunkSize), EffectiveOverlap(chunkOverlap), 0)

-----------------------------------------------------------------------------
(* Embedding ingest: MMQ.GenerateEmbeddings and the status it is judged by *)

ChunkSize == 2         \* Config.ChunkSize of the runs
ChunkOverlap == 1      \* Config.ChunkOverlap of the runs
RunBodies == {" ", "ab", "abc"}

HasFirstChunkRow(cv, hash) == \E v \in cv : v.hash = hash /\ v.seq = 0

\* GetDocumentsNeedingEmbedding: DISTINCT (hash, body) of the active documents
\* without a seq = 0 row
GetDocumentsNeedingEmbedding(docs, cont, cv) ==
    {[hash |-> x[1].hash, doc |-> x[2].doc] :
        x \in {y \in docs \X cont : /\ y[1].active
                                   /\ y[2].hash = y[1].hash
                                   /\ ~HasFirstChunkRow(cv, y[1].hash)}}

\* GetStatus, NeedsEmbedding: COUNT(DISTINCT hash) of the same documents
NeedsEmbedding(docs, cv) ==
    Cardinality({d.hash : d \in {x \in docs : x.active /\ ~HasFirstChunkRow(cv, x.hash)}})

\* the orders in which a result set can come back
Orders(rows) ==
    {f \in [1..Cardinality(rows) -> rows] :
        \A i, j \in 1..Cardinality(rows) : f[i] = f[j] => i = j}

\* the Generate and StoreEmbedding calls of one document, seq = chunk index
DocCalls(doc) ==
    LET chunks == ChunkDocument(doc.doc, ChunkSize, ChunkOverlap)
    IN [j \in 1..Len(chunks) |->
           [hash |-> doc.hash, seq |-> j - 1, text |-> chunks[j].Text]]

RECURSIVE EmbedCalls(_, _)
EmbedCalls(docs, i) ==
    IF i > Len(docs) THEN <<>> ELSE DocCalls(docs[i]) \o EmbedCalls(docs, i + 1)

\* The loops of GenerateEmbeddings from call n on; call failAt has Generate
\* fail, and the first error returns.
RECURSIVE EmbedLoop(_, _, _, _)
EmbedLoop(st, calls, n, failAt) ==
    IF n > Len(calls) \/ st.err THEN st
    ELSE LET g == Generate(calls[n].text, n # failAt)
         IN IF g.err THEN [st EXCEPT !.err = TRUE]
            ELSE LET dim == ensureVectorTable(st.vecDim, Len(g.embedding))
                     r == StoreEmbeddingTx(st.content_vectors, st.vectors_vec, dim,
                                           calls[n].hash, calls[n].seq, g.embedding)
                 IN EmbedLoop([content_vectors |-> r.content_vectors,
                               vectors_vec |-> r.vectors_vec,
                               vecDim |-> dim, err |-> r.err],
                              calls, n + 1, failAt)

NoRun == [done |-> FALSE]

GenerateEmbeddings(docs, failAt) ==
    /\ docs \in Orders(GetDocumentsNeedingEmbedding(documents, content, content_vectors))
    /\ failAt \in 0..Len(EmbedCalls(docs, 1))
    /\ \E st \in {EmbedLoop([content_vectors |-> content_vectors,
                             vectors_vec |-> vectors_vec,
                             vecDim |-> vecDim, err |-> FALSE],
                            EmbedCalls(docs, 1), 1, failAt)} :
          /\ content_vectors' = st.content_vectors
          /\ vectors_vec' = st.vectors_vec
          /\ vecDim' = st.vecDim
          /\ run' = [done |-> TRUE, docs |-> docs, failAt |-> failAt,
                     err |-> st.err,
                     needsEmbedding |-> NeedsEmbedding(documents, st.content_vectors)]
    /\ UNCHANGED <<content, documents, documents_fts, collections, nextId,
                   llm_cache, ixPc, ixDoc, clPc, last, hist, rrf, dense,
                   extVars, chunker, lex, prefs, model>>

-----------------------------------------------------------------------------
(* Lexical search with scores: SearchFTS and normalizeBM25Score *)

MaxRaw == 2                     \* raw bm25() values of a hit: -MaxRaw..1
RawScores == (0 - MaxRaw)..1
LexQueries == {"t", "x"}

RECURSIVE Factorial(_)
Factorial(n) == IF n = 0 THEN 1 ELSE n * Factorial(n - 1)

\* normalized scores are held in units of 1/NormUnit, which every 1 + |s| divides
NormUnit == Factorial(MaxRaw + 1)

\* normalizeBM25Score: 1 / (1 + absScore), absScore = -bm25 floored at 0
normalizeBM25Score(bm25) ==
    LET absScore == IF 0 - bm25 < 0 THEN 0 ELSE 0 - bm25
    IN NormUnit \div (1 + absScore)

\* the SearchResult scanned from a row: d.hash overwrites d.id in ID, d.path
\* overwrites the filepath in Path
FtsResult(d, bm25) ==
    [id |-> d.hash, collection |-> d.collection, path |-> d.path,
     bm25 |-> bm25, score |-> normalizeBM25Score(bm25), source |-> "fts"]

NoLexical == [done |-> FALSE]

\* SearchFTS: the matching rows ORDER BY bm25_score ASC LIMIT ?, each with its
\* normalized score.  bm25 is the value SQLite computes for each row.
SearchFTS(query, limit, collectionFilter, bm25) ==
    /\ bm25 \in [SearchFTSHits(documents, documents_fts, content, query,
                               collectionFilter) -> RawScores]
    /\ \E rows \in Ordered({<<d, 0 - bm25[d]>> : d \in DOMAIN bm25}) :
          lex' = [done |-> TRUE, query |-> query, limit |-> limit,
                  collectionFilter |-> collectionFilter,
                  results |-> [i \in 1..(IF Len(rows) < limit THEN Len(rows) ELSE limit)
                                 |-> FtsResult(rows[i], bm25[rows[i]])]]
    /\ UNCHANGED <<storeVars, llm_cache, ixPc, ixDoc, clPc, last, hist, rrf,
                   dense, extVars, chunker, run, prefs, model>>

-----------------------------------------------------------------------------
(* Memories that expire.  A row without the field expires_at has the column *)
(* NULL; instants are the integers of the clock.                            *)

\* expires_at IS NOT NULL AND expires_at < now
IsExpired(r, now) == "expires_at" \in DOMAIN r /\ r.expires_at < now

\* INSERT INTO memories with expiresAt set
InsertMemoryExpiring(rows, id, memType, text, timestamp, expiresAt, importance,
                     embedding) ==
    rows \cup {[id |-> id, type |-> memType, content |-> text,
                timestamp |-> timestamp, expires_at |-> expiresAt,
                importance |-> importance, embedding |-> embedding]}

\* Manager.Store of a memory whose ExpiresAt is set
StoreExpiring(id, memType, text, timestamp, expiresAt, importance, embedOk, bound) ==
    /\ Cardinality(memories) < bound
    /\ id \notin {r.id : r \in memories}
    /\ LET g == Generate(text, embedOk)
           imp == IF importance = 0 THEN 1 ELSE importance
       IN /\ memories' = IF g.err THEN memories
                         ELSE InsertMemoryExpiring(memories, id, memType, text,
                                                   timestamp, expiresAt, imp,
                                                   g.embedding)
          /\ recall' = [op |-> "store", id |-> id, content |-> text,
                        err |-> g.err, before |-> memories, results |-> <<>>]
    /\ UNCHANGED <<auxVars, storeVars, llm_cache, ixPc, ixDoc, clPc, last, hist, rrf,
                   dense, ret, stats>>

\* DeleteExpiredMemories at the instant now: the rows it leaves
DeleteExpiredMemories(rows, now) == {r \in rows : ~IsExpired(r, now)}

\* Manager.CleanupExpired
CleanupExpired(now) ==
    /\ memories' = DeleteExpiredMemories(memories, now)
    /\ recall' = [op |-> "sweep", id |-> "", content |-> "", err |-> FALSE,
                  before |-> memories, results |-> <<>>]
    /\ UNCHANGED <<auxVars, storeVars, llm_cache, ixPc, ixDoc, clPc, last, hist, rrf,
                   dense, ret, stats>>

-----------------------------------------------------------------------------
(* Preferences: pkg/memory/preference.go over memories of type preference *)

MaxPrefs == 2                  \* preference memories stored
Categories == {"ui"}
PrefKeys == {"theme", "font"}
PrefValues == {"1", "2"}
PrefIdents == Categories \X PrefKeys

NoPrefs == [clock |-> 0, latest |-> [ck \in PrefIdents |-> ""]]

\* fmt.Sprintf("... %s: %s = %s", category, key, valueJSON)
PreferenceContent(category, key, value) ==
    "pref " \o category \o ": " \o key \o " = " \o value

PreferenceMetadata(category, key, value) ==
    [category |-> category, key |-> key, value |-> value]

\* INSERT INTO memories with a metadata map
InsertMemoryWithMetadata(rows, id, memType, text, metadata, timestamp, importance,
                         embedding) ==
    rows \cup {[id |-> id, type |-> memType, content |-> text,
                metadata |-> metadata, timestamp |-> timestamp,
                importance |-> importance, embedding |-> embedding]}

\* UPDATE memories SET content, metadata, importance, embedding WHERE id = ?
UpdateMemoryWithMetadata(rows, id, text, metadata, importance, embedding) ==
    {IF r.id = id
     THEN [r EXCEPT !.content = text, !.metadata = metadata,
                    !.importance = importance, !.embedding = embedding]
     ELSE r : r \in rows}

\* GetMemoriesByType: WHERE type = ? ORDER BY timestamp DESC, in every order
\* the rows of one timestamp can come back in
GetMemoriesByType(rows, memType) ==
    Ordered({<<r, r.timestamp>> : r \in {x \in rows : x.type = memType}})

IsPreference(mem, category, key) ==
    mem.metadata.category = category /\ mem.metadata.key = key

\* the first memory of the list with this category and key, 0 when none has
FirstMatch(mems, category, key) ==
    LET hits == {i \in 1..Len(mems) : IsPreference(mems[i], category, key)}
    IN IF hits = {} THEN 0 ELSE CHOOSE i \in hits : \A j \in hits : i <= j

\* getPreferenceExact: the value of the first match, "" for not found
getPreferenceExact(mems, category, key) ==
    IF FirstMatch(mems, category, key) = 0 THEN ""
    ELSE mems[FirstMatch(mems, category, key)].metadata.value

\* GetAllPreferences: prefs[category][key] = value for every memory in list
\* order, so that the last memory of a (category, key) is the one that stays
GetAllPreferences(mems) ==
    [ck \in {<<mems[i].metadata.category, mems[i].metadata.key>> : i \in 1..Len(mems)} |->
        LET hits == {i \in 1..Len(mems) : IsPreference(mems[i], ck[1], ck[2])}
        IN mems[CHOOSE i \in hits : \A j \in hits : j <= i].metadata.value]

\* RecordPreference through Manager.Store at the instant of the clock, which
\* has advanced by tick since the call before
RecordPreference(id, category, key, value, tick, embedOk) ==
    /\ Cardinality(memories) < MaxPrefs
    /\ prefs.clock + tick <= MaxTime
    /\ id \notin {r.id : r \in memories}
    /\ LET text == PreferenceContent(category, key, value)
           g == Generate(text, embedOk)
       IN /\ memories' = IF g.err THEN memories
                         ELSE InsertMemoryWithMetadata(
                                  memories, id, "preference", text,
                                  PreferenceMetadata(category, key, value),
                                  prefs.clock + tick, 2, g.embedding)
          /\ prefs' = [clock |-> prefs.clock + tick,
                       latest |-> IF g.err THEN prefs.latest
                                  ELSE [prefs.latest EXCEPT ![<<category, key>>] = value]]
          /\ recall' = [op |-> "store", id |-> id, content |-> text,
                        err |-> g.err, before |-> memories, results |-> <<>>]
    /\ UNCHANGED <<storeVars, llm_cache, ixPc, ixDoc, clPc, last, hist, rrf,
                   dense, ret, stats, chunker, run, lex, model>>

\* UpdatePreference: Manager.Update of the first match of the list mems, or
\* RecordPreference under the fresh id when there is none
UpdatePreference(mems, id, category, key, newValue, tick, embedOk) ==
    /\ mems \in GetMemoriesByType(memories, "preference")
    /\ IF FirstMatch(mems, category, key) = 0
       THEN RecordPreference(id, category, key, newValue, tick, embedOk)
       ELSE LET mem == mems[FirstMatch(mems, category, key)]
                text == PreferenceContent(category, key, newValue)
                g == Generate(text, embedOk)
            IN /\ memories' = IF g.err THEN memories
                              ELSE UpdateMemoryWithMetadata(
                                       memories, mem.id, text,
                                       PreferenceMetadata(category, key, newValue),
                                       mem.importance, g.embedding)
               /\ prefs' = [prefs EXCEPT !.latest =
                               IF g.err THEN @
                               ELSE [@ EXCEPT ![<<category, key>>] = newValue]]
               /\ recall' = [op |-> "update", id |-> mem.id, content |-> text,
                             err |-> g.err, before |-> memories, results |-> <<>>]
               /\ UNCHANGED <<storeVars, llm_cache, ixPc, ixDoc, clPc, last, hist,
                              rrf, dense, ret, stats, chunker, run, lex, model>>

-----------------------------------------------------------------------------
(* The model runtime: LlamaCpp, one mutex over three lazily loaded models.  *)
(* A call is Embed, Rerank or Generate; they differ in the model they use.  *)

MaxLoads == 2                   \* times one model is loaded
ModelTypes == {"embedding", "rerank", "generate"}
Callers == {"embed1", "embed2", "rerank1", "generate1"}

TypeOf(caller) ==
    IF caller \in {"embed1", "embed2"} THEN "embedding"
    ELSE IF caller = "rerank1" THEN "rerank" ELSE "generate"

\* After NewLlamaCpp: no model loaded (instance 0 is the nil pointer), no
\* timer, the mutex free, every goroutine outside the runtime.
NoModel ==
    [mu |-> "",
     instance |-> [t \in ModelTypes |-> 0],
     loads |-> [t \in ModelTypes |-> 0],
     timers |-> [t \in ModelTypes |-> FALSE],
     pc |-> [c \in Callers |-> "idle"],
     local |-> [c \in Callers |-> 0],
     unloading |-> [t \in ModelTypes |-> FALSE],
     closing |-> FALSE]

ModelFrame ==
    UNCHANGED <<storeVars, llm_cache, ixPc, ixDoc, clPc, last, hist, rrf,
                dense, extVars, chunker, run, lex, prefs>>

\* loadModel, entirely under mu.Lock: load when not loaded, arm the timer
loadModel(c) ==
    /\ model.pc[c] = "idle"
    /\ model.mu = ""
    /\ IF model.instance[TypeOf(c)] # 0
       THEN model' = [model EXCEPT !.pc[c] = "loaded"]
       ELSE /\ model.loads[TypeOf(c)] < MaxLoads
            /\ model' = [model EXCEPT
                           !.pc[c] = "loaded",
                           !.loads[TypeOf(c)] = @ + 1,
                           !.instance[TypeOf(c)] = model.loads[TypeOf(c)] + 1,
                           !.timers[TypeOf(c)] = TRUE]
    /\ ModelFrame

\* mu.RLock(); model := l.embeddingModel; mu.RUnlock(); a nil model returns
\* an error
readModel(c) ==
    /\ model.pc[c] = "loaded"
    /\ model.mu = ""
    /\ model' = [model EXCEPT
                   !.local[c] = model.instance[TypeOf(c)],
                   !.pc[c] = IF model.instance[TypeOf(c)] = 0 THEN "idle" ELSE "read"]
    /\ ModelFrame

\* model.Embeddings / model.Predict starts, with no lock held
predictBegin(c) ==
    /\ model.pc[c] = "read"
    /\ model' = [model EXCEPT !.pc[c] = "calling"]
    /\ ModelFrame

\* ... and returns; an error returns from the call at once
predictEnd(c, ok) ==
    /\ model.pc[c] = "calling"
    /\ model' = [model EXCEPT !.pc[c] = IF ok THEN "called" ELSE "idle",
                              !.local[c] = IF ok THEN @ ELSE 0]
    /\ ModelFrame

\* mu.Lock(); lastUsed; setUnloadTimer; mu.Unlock(); return
touchModel(c) ==
    /\ model.pc[c] = "called"
    /\ model.mu = ""
    /\ model' = [model EXCEPT !.pc[c] = "idle", !.local[c] = 0,
                              !.timers[TypeOf(c)] = TRUE]
    /\ ModelFrame

\* the timer of a model fires: unloadModel takes mu.Lock and starts Free
unloadModelLock(t) ==
    /\ model.timers[t]
    /\ model.mu = ""
    /\ model' = [model EXCEPT !.mu = t, !.unloading[t] = TRUE]
    /\ ModelFrame

\* Free returns; the pointer is nil, the timer deleted, the mutex released
unloadModelUnlock(t) ==
    /\ model.unloading[t]
    /\ model' = [model EXCEPT !.mu = "", !.unloading[t] = FALSE,
                              !.instance[t] = 0, !.timers[t] = FALSE]
    /\ ModelFrame

\* Close takes mu.Lock, stops the timers and starts to Free every model
CloseLock ==
    /\ model.mu = ""
    /\ model' = [model EXCEPT !.mu = "close", !.closing = TRUE,
                              !.timers = [t \in ModelTypes |-> FALSE]]
    /\ ModelFrame

CloseUnlock ==
    /\ model.closing
    /\ model' = [model EXCEPT !.mu = "", !.closing = FALSE,
                              !.instance = [t \in ModelTypes |-> 0]]
    /\ ModelFrame

\* The operations at work on a model: <<who, model type, instance>>
ModelOperations ==
    {<<c, TypeOf(c), model.local[c]>> : c \in {x \in Callers : model.pc[x] = "calling"}}
      \cup {<<"timer", t, model.instance[t]>> :
               t \in {x \in ModelTypes : model.unloading[x] /\ model.instance[x] # 0}}
      \cup {<<"close", t, model.instance[t]>> :
               t \in {x \in ModelTypes : model.closing /\ model.instance[x] # 0}}

-----------------------------------------------------------------------------
(* The store after New(): the schema is created and every table is empty *)

NoOp == [op |-> "none", arg |-> "", err |-> FALSE]
NoRecall == [op |-> "none"]
NoStats == [sets |-> 0, added |-> 0, removed |-> 0]

InitStore ==
    /\ content = {}
    /\ documents = {}
    /\ documents_fts = {}
    /\ collections = {}
    /\ content_vectors = {}
    /\ vectors_vec = {}
    /\ vecDim = 0
    /\ nextId = 1
    /\ llm_cache = {}
    /\ ixPc = "idle"
    /\ ixDoc = NoDoc
    /\ clPc = "idle"
    /\ last = NoOp

InitAux ==
    /\ chunker = NoChunker
    /\ run = NoRun
    /\ lex = NoLexical
    /\ prefs = NoPrefs
    /\ model = NoModel

InitExt ==
    /\ ret = NoRetrieve
    /\ memories = {}
    /\ recall = NoRecall
    /\ stats = NoStats

Init ==
    /\ InitStore
    /\ hist = NoHist
    /\ rrf = NoFusion
    /\ dense = NoSearch
    /\ InitExt
    /\ InitAux

Cleanup == CleanupCache \/ CleanupDocuments \/ CleanupContent \/ CleanupVectors

IndexDocument ==
    \/ \E c \in Collections, p \in Paths, t \in Titles, b \in Bodies :
           IndexDocumentCheck(c, p, t, b)
    \/ IndexDocumentContent
    \/ IndexDocumentUpsert

\* Documents and collections: ingest, soft delete, collection registry,
\* maintenance.
Next ==
    \/ IndexDocument
    \/ \E ident \in Idents : DeleteDocument(ident)
    \/ \E name \in Collections : CreateCollection(name)
    \/ \E name \in Collections : RemoveCollection(name)
    \/ \E old \in Collections, new \in Collections : RenameCollection(old, new)
    \/ Cleanup

Spec == Init /\ [][Next]_vars

\* Embeddings and search: ingest into one collection, soft delete, collection
\* removal, embedding stores and deletions, maintenance.
EmbedCollections == {"a"}
EmbedVectors == {<<1, 0>>, <<1, 0, 0>>}

NextEmbed ==
    \/ \E c \in EmbedCollections, p \in Paths, t \in Titles, b \in Bodies :
           IndexDocumentCheck(c, p, t, b)
    \/ IndexDocumentContent
    \/ IndexDocumentUpsert
    \/ \E ident \in Idents : DeleteDocument(ident)
    \/ \E name \in EmbedCollections : CreateCollection(name)
    \/ \E name \in EmbedCollections : RemoveCollection(name)
    \/ \E hash \in Hashes, seq \in 0..MaxSeq, embedding \in EmbedVectors :
           StoreEmbedding(hash, seq, embedding)
    \/ \E hash \in Hashes : DeleteEmbeddings(hash)
    \/ Cleanup

SpecEmbed == Init /\ [][NextEmbed]_vars

\* The cache: sets, clears, maintenance, and queries with expansion enabled.
NextCache ==
    \/ \E key \in CacheKeys, result \in Results, ok \in BOOLEAN :
           SetCachedResult(key, result, ok)
    \/ ClearCache
    \/ \E query \in Queries, setOk \in BOOLEAN, searchOk \in BOOLEAN :
           \E outcome \in ExpandQuery(query) :
               Retrieve(query, outcome, setOk, searchOk)
    \/ Cleanup

SpecCache == Init /\ [][NextCache]_vars

\* Fusion: any lists, one weight per list, any k, any extra list.
InitFusion ==
    /\ InitStore
    /\ hist = NoHist
    /\ dense = NoSearch
    /\ InitExt
    /\ InitAux
    /\ \E n \in 1..MaxLists :
         \E resultLists \in [1..n -> ResultLists], weights \in [1..n -> FusionWeights],
            k \in FusionKs, extra \in ResultLists :
             rrf = [NoFusion EXCEPT !.resultLists = resultLists,
                                    !.weights = weights, !.k = k, !.extra = extra]

NextFusion == Fuse

SpecFusion == InitFusion /\ [][NextFusion]_vars

\* Dense search: ingest into one collection, embedding stores, searches.
NextDense ==
    \/ \E c \in EmbedCollections, p \in Paths, t \in Titles, b \in Bodies :
           IndexDocumentCheck(c, p, t, b)
    \/ IndexDocumentContent
    \/ IndexDocumentUpsert
    \/ \E hash \in Hashes, seq \in 0..MaxSeq, embedding \in DenseVectors :
           StoreEmbedding(hash, seq, embedding)
    \/ \E embedding \in DenseVectors, limit \in 1..MaxLimit,
          collectionFilter \in {""} \cup EmbedCollections :
           SearchVector(embedding, limit, collectionFilter)

SpecDense == Init /\ [][NextDense]_vars

\* Retrieval calls: every strategy, with and without expansion, capability
\* failures, min-score filter and rerank.
NextRetrieve ==
    /\ ~ret.done
    /\ \E expandQuery \in BOOLEAN, rerankOn \in BOOLEAN :
         \E fq \in StoreLists, vq \in StoreLists,
            fe \in IF expandQuery THEN ExpansionLists ELSE {<<>>},
            ve \in IF expandQuery THEN ExpansionLists ELSE {<<>>},
            caps \in {<<TRUE, TRUE>>, <<FALSE, TRUE>>, <<TRUE, FALSE>>},
            expansions \in IF expandQuery THEN ExpansionOutcomes ELSE {NoExpansions},
            rr \in IF rerankOn THEN RerankOutcomes ELSE {NoRerank},
            limit \in 1..MaxRetrieveLimit, minScore \in MinScores,
            strategy \in Strategies :
             RetrieveResults(
                 [fts |-> [t \in RetrieveTexts |-> IF t = "q" THEN fq ELSE fe],
                  vec |-> [t \in RetrieveTexts |-> IF t = "q" THEN vq ELSE ve],
                  embedOk |-> caps[1], storeOk |-> caps[2],
                  expansions |-> expansions, rerank |-> rr],
                 [limit |-> limit, minScore |-> minScore, strategy |-> strategy,
                  rerank |-> rerankOn, expandQuery |-> expandQuery,
                  rrfWeights |-> <<1, 1>>, rrfK |-> DefaultRRFK])

SpecRetrieve == Init /\ [][NextRetrieve]_vars

\* Memories stored and recalled: two ids, every type, timestamps up to the
\* clock, which stands at MaxTime when the recall runs.
RecallUUIDs == {"aa100000-0000-4000-8000-000000000000",
                "b0000000-0000-4000-8000-000000000000"}

NextRecall ==
    \/ /\ recall.op # "recall"
       /\ \E id \in RecallUUIDs, memType \in MemoryTypes, text \in Contents,
             timestamp \in 0..MaxTime, importance \in Importances :
              Store(id, memType, text, timestamp, importance, TRUE, MaxMemories)
    \/ /\ recall.op # "recall"
       /\ \E query \in Contents, embedOk \in BOOLEAN, applyDecay \in BOOLEAN,
             decayHalflife \in Halflives, weight \in BOOLEAN, limit \in 1..2,
             minRelevance \in {0, SimilarityUnit \div 2},
             memoryTypes \in {{}, {"fact"}} :
              Recall(query,
                     [limit |-> limit, memoryTypes |-> memoryTypes,
                      applyDecay |-> applyDecay, decayHalflife |-> decayHalflife,
                      weightByImportance |-> weight, minRelevance |-> minRelevance],
                     embedOk, MaxTime)

SpecRecall == Init /\ [][NextRecall]_vars

\* Memories stored, updated, read and deleted by id or id prefix, with an
\* embedding capability that can fail.
MaxMemoryRows == 3
StoredTypes == {"fact", "episodic"}

NextMemory ==
    \/ \E id \in UUIDs, memType \in StoredTypes, text \in Contents,
          embedOk \in BOOLEAN :
           Store(id, memType, text, 0, 0, embedOk, MaxMemoryRows)
    \/ \E id \in MemoryIdents, text \in Contents, embedOk \in BOOLEAN :
           Update(id, text, 2, embedOk)
    \/ \E id \in MemoryIdents : Delete(id)
    \/ \E id \in MemoryIdents : GetByID(id)

SpecMemory == Init /\ [][NextMemory]_vars

\* The cache under sets, clears and maintenance, with the observer's counts.
NextStats ==
    \/ \E key \in CacheKeys, result \in Results, ok \in BOOLEAN :
           SetCachedResultCounted(key, result, ok)
    \/ ClearCacheCounted
    \/ CleanupCacheCounted
    \/ CleanupDocuments
    \/ CleanupContent
    \/ CleanupVectors

SpecStats == Init /\ [][NextStats]_vars





-----------------------------------------------------------------------------
(* Claims about documents, content and the full-text index *)

\* C2: every active document has exactly one full-text row, and that row
\* carries the document's current filepath (collection/path), title and body;
\* no full-text row belongs to an inactive or physically deleted document.
C2_FtsConsistent ==
    /\ \A d \in documents : d.active =>
          /\ Cardinality({r \in documents_fts : r.rowid = d.id}) = 1
          /\ \E c \in content :
                /\ c.hash = d.hash
                /\ [rowid |-> d.id, filepath |-> FilePath(d.collection, d.path),
                    title |-> d.title, body |-> c.doc] \in documents_fts
    /\ \A r \in documents_fts :
          \E d \in documents : d.id = r.rowid /\ d.active

\* Maintenance has run: a document outside collection "a" is active with its
\* full-text row, and another document has been soft-deleted since.
C2_Witness ==
    /\ last.op = "cleanup"
    /\ \E d \in documents : d.active /\ d.collection \notin {"a"} /\ d.hash = computeHash("y")
    /\ \E r \in documents_fts : r.filepath = "b/p" /\ r.body = "y"
    /\ \E d \in documents : ~d.active

C5_RenameAtomic ==
    [][\A old \in Collections, new \in Collections :
          RenameCollection(old, new) =>
             IF last'.err
             THEN /\ collections' = collections
                  /\ documents' = documents
                  /\ documents_fts' = documents_fts
             ELSE /\ old \in collections /\ old \notin collections'
                  /\ new \in collections'
                  /\ \A d \in documents' : d.collection # old
                  /\ \A d \in documents :
                        IF d.collection = old
                        THEN [d EXCEPT !.collection = new] \in documents'
                        ELSE d \in documents'
                  /\ Cardinality(documents') = Cardinality(documents)]_vars

\* A rename to "b" succeeded and moved two documents.
C5_Witness ==
    /\ last = [op |-> "rename", arg |-> "b", err |-> FALSE]
    /\ "b" \in collections /\ "a" \notin collections
    /\ Cardinality({d \in documents : d.collection = "b"}) = 2

-----------------------------------------------------------------------------
(* Claims about embeddings and search *)

\* C1: a chunk-embedding row for (hash, seq) exists if and only if a
\* vector-index row with key hash_seq exists.
C1_EmbeddingIffVector ==
    /\ \A v \in content_vectors :
          \E w \in vectors_vec : w.hash_seq = HashSeq(v.hash, v.seq)
    /\ \A w \in vectors_vec :
          \E v \in content_vectors : w.hash_seq = HashSeq(v.hash, v.seq)

\* C4: a soft-deleted document, until it is ingested again, is returned by no
\* lexical search, no chunk-level or document-level vector search, and no get
\* or list operation, whatever the arguments.
C4_InactiveInvisible ==
    LET Texts == {"x", "y", "p", "a q"}
        Filters == {""} \cup Collections
        Limits == 1..2
        DocIDs == Hashes \cup {SubSeq(h, 1, DocidLen) : h \in Hashes}
                         \cup {SubSeq(h, 1, DocidLen - 1) : h \in Hashes}
        Seen(rows) == {Key(r) : r \in rows}
        Returned ==
            UNION ({Seen(SearchFTSHits(documents, documents_fts, content, q, f)) :
                       q \in Texts, f \in Filters}
              \cup {Seen(SearchVectorRows(documents, content_vectors, content, e, f)) :
                       e \in Embeddings, f \in Filters}
              \cup {Seen(SearchVectorDocumentsHits(documents, content_vectors,
                             vectors_vec, vecDim, content, e, n, f)) :
                       e \in Embeddings, n \in Limits, f \in Filters}
              \cup {Seen(GetDocument(documents, content, i)) : i \in Idents}
              \cup {Seen(ListDocuments(documents, f)) : f \in Filters}
              \cup {Seen(ListDocumentsByPath(documents, f, q)) :
                       f \in Filters, q \in {""} \cup Paths}
              \cup {Seen(GetDocumentByPath(documents, content, f, q)) :
                       f \in Collections, q \in Paths}
              \cup {Seen(GetDocumentByID(documents, content, i)) : i \in DocIDs})
    IN \A d \in documents : ~d.active => Key(d) \notin Returned

\* A document was soft-deleted while its content and its embedding stay in
\* the store, and a second document with the same body is still returned by
\* the chunk-level vector search.
C4_Witness ==
    /\ last = [op |-> "delete", arg |-> "", err |-> FALSE]
    /\ \E d \in documents, v \in content_vectors, w \in vectors_vec :
          /\ ~d.active
          /\ d.hash \in ContentHashes(content)
          /\ v.hash = d.hash
          /\ w.hash_seq = HashSeq(v.hash, v.seq)
          /\ \E r \in SearchVectorRows(documents, content_vectors, content,
                                        v.embedding, "") :
                r.hash = d.hash /\ r.path # d.path

\* C10: once the vector index exists with dimension d, a store of an
\* embedding of another dimension returns an error and leaves the
\* chunk-embedding table and the vector index as they were.
C10_DimensionMismatchRejected ==
    [][\A hash \in Hashes, seq \in 0..MaxSeq, embedding \in Embeddings :
          (/\ vecDim # 0
           /\ Len(embedding) # vecDim
           /\ StoreEmbedding(hash, seq, embedding))
          => /\ last'.err
             /\ content_vectors' = content_vectors
             /\ vectors_vec' = vectors_vec
             /\ vecDim' = vecDim]_vars

\* A store was refused while the index holds vectors of its own dimension.
C10_Witness ==
    /\ last = [op |-> "store", arg |-> "", err |-> TRUE]
    /\ vecDim # 0
    /\ \E v \in content_vectors : Len(v.embedding) = vecDim
    /\ C1_EmbeddingIffVector

-----------------------------------------------------------------------------
(* Claims about the cache *)

\* C6: there is at most one cache row per key, and a get for a key returns
\* the value of the most recent set on that key since the cache was last
\* emptied, or a miss ("") when there is none.
C6_LastWriterWins ==
    \A key \in CacheKeys :
        /\ Cardinality({r \in llm_cache : r.hash = key}) <= 1
        /\ GetCachedResult(llm_cache, key) =
              IF key \in DOMAIN hist.written THEN hist.written[key] ELSE ""

\* A raw set has just succeeded; the cache holds that value under one key and
\* a stored query expansion under another.
C6_Witness ==
    /\ last = [op |-> "set", arg |-> "", err |-> FALSE]
    /\ GetCachedResult(llm_cache, CacheKey("rerank", "X")) = "v"
    /\ "Y" \in hist.stored
    /\ GetCachedResult(llm_cache, CacheKey("expandQuery", "Y")) \notin Results
    /\ Cardinality(llm_cache) = 2

-----------------------------------------------------------------------------
(* Claims about fusion *)

\* C8: fusing the lists together with one more list of weight zero yields
\* the same ranking as fusing them without it: every ranking the fusion with
\* the extra list can return is one the fusion without it can return.
C8_ZeroWeightListIgnored ==
    rrf.done => rrf.fusedWithExtra \subseteq rrf.fused

-----------------------------------------------------------------------------
(* Claims about dense search *)

\* C9: when more documents have embeddings than the limit asks for, the
\* search returns exactly limit documents, in descending order of score, and
\* no document left out has a higher score than one returned.
C9_TopLimitByScore ==
    Cardinality(DOMAIN dense.seen) > dense.limit =>
        /\ Len(dense.results) = dense.limit
        /\ \A i \in 1..Len(dense.results), j \in 1..Len(dense.results) :
              i < j => dense.results[i].score >= dense.results[j].score
        /\ \A hash \in DOMAIN dense.seen :
              hash \notin {dense.results[i].id : i \in 1..Len(dense.results)} =>
                 \A i \in 1..Len(dense.results) :
                     25 - dense.seen[hash] <= dense.results[i].score

\* The keys of a result list, in order
KeysOf(results) == [i \in 1..Len(results) |-> ResultKey(results[i])]

\* C11: when the embedding capability fails during a hybrid retrieval, the
\* dense route is skipped and the call returns the lexical results instead of
\* an error.
C11_HybridDegradesToLexical ==
    (/\ ret.done
     /\ ret.opts.strategy = "hybrid"
     /\ ~ret.opts.expandQuery
     /\ ~ret.env.embedOk
     /\ ret.env.storeOk)
        => /\ ~ret.found.err
           /\ KeysOf(ret.found.results) = KeysOf(ret.env.fts["q"])

\* The i-th smallest member of a set of numbers
Nth(S, i) == CHOOSE x \in S : Cardinality({y \in S : y < x}) = i - 1

\* The routes of a call that ended without error and with at least one result
SurvivingRoutes(routes) ==
    {i \in 1..Len(routes) : ~routes[i].err /\ Len(routes[i].results) > 0}

\* The fusions of the surviving lists of the call in ret, each list weighted
\* by the expansion that produced it
FusionOfSurvivors ==
    LET surv == SurvivingRoutes(ret.found.routes)
        n == Cardinality(surv)
    IN FusedResults([i \in 1..n |-> ret.found.routes[Nth(surv, i)].results],
                    [i \in 1..n |-> ret.env.expansions.expansions[Nth(surv, i)].weight],
                    ret.opts.rrfK)

\* The call in ret ran with expansion enabled and the expansion gave routes
Expanded ==
    /\ ret.done
    /\ ret.opts.expandQuery
    /\ ~ret.env.expansions.err
    /\ Len(ret.env.expansions.expansions) > 0

C13_RelevanceAtLeastMinScore ==
    (ret.done /\ ~ret.err /\ ret.opts.minScore > 0)
        => \A i \in 1..Len(ret.contexts) :
               ret.contexts[i].relevance >= ret.opts.minScore

\* The relevance the search gave a recalled memory, before decay and
\* weighting, in units of 1/25
RawRelevance(mem) ==
    LET row == CHOOSE r \in recall.before : r.id = mem.id
    IN 25 - cosineDist(Embed(recall.query), row.embedding)

\* A recall with time decay enabled has returned
DecayedRecall ==
    /\ recall.op = "recall"
    /\ ~recall.err
    /\ recall.opts.applyDecay

\* C14: with time decay enabled in a recall, the relevance of fact and
\* preference memories is not reduced by their age; only other memory types
\* are decayed.
C14_FactsAndPreferencesNeverDecay ==
    DecayedRecall =>
        \A i \in 1..Len(recall.results) :
            LET mem == recall.results[i]
            IN mem.type \in {"fact", "preference"} =>
                  mem.relevance =
                      RawRelevance(mem) * DecayUnit
                          * (IF recall.opts.weightByImportance
                             THEN 1 + mem.importance ELSE 2)

\* C15: with decay enabled and half-life H, of two memories with equal raw
\* relevance and importance where one is exactly H older than the other, the
\* newer one's post-decay relevance is twice the older one's (to within one
\* percent).
C15_HalfLifeHalves ==
    DecayedRecall =>
        \A i \in 1..Len(recall.results), j \in 1..Len(recall.results) :
            LET newer == recall.results[i]
                older == recall.results[j]
            IN (/\ newer.type = "episodic" /\ older.type = "episodic"
                /\ RawRelevance(newer) = RawRelevance(older)
                /\ newer.importance = older.importance
                /\ newer.timestamp - older.timestamp = recall.opts.decayHalflife)
                  => /\ (newer.relevance - 2 * older.relevance) * 100 <= newer.relevance
                     /\ (2 * older.relevance - newer.relevance) * 100 <= newer.relevance

\* The memories a supplied id resolves to when prefixes are honoured
Resolved(rows, id) ==
    IF Len(id) < UUIDLen THEN {r \in rows : HasPrefix(r.id, id)}
    ELSE {r \in rows : r.id = id}

\* C16: updating a memory whose id does not exist returns a not-found error
\* to the caller and changes no stored memory.
C16_UpdateOfMissingIdIsNotFound ==
    (/\ recall.op = "update"
     /\ Resolved(recall.before, recall.id) = {})
        => /\ recall.err
           /\ memories = recall.before

\* C17: when the supplied id is shorter than a full UUID and is a prefix of
\* exactly one memory's id, get, update and delete all resolve to that memory.
C17_PrefixResolvesToTheMemory ==
    (/\ recall.op \in {"get", "update", "delete"}
     /\ Len(recall.id) < UUIDLen
     /\ Cardinality(Resolved(recall.before, recall.id)) = 1)
        => LET target == CHOOSE r \in recall.before : HasPrefix(r.id, recall.id)
           IN CASE recall.op = "get" ->
                     /\ ~recall.err
                     /\ recall.results = <<target>>
                [] recall.op = "delete" ->
                     /\ ~recall.err
                     /\ memories = recall.before \ {target}
                [] recall.op = "update" ->
                     \/ recall.err
                     \/ \E r \in memories :
                           /\ r.id = target.id
                           /\ r.content = recall.content
                           /\ r.importance = 2

\* C18: after any sequence of memory stores and updates, including updates
\* whose embedding computation fails, every stored memory's embedding is the
\* embedding of its current content.
C18_EmbeddingOfCurrentContent ==
    \A r \in memories : r.embedding = Embed(r.content)

\* An update of a memory to another content failed on its embedding, after
\* an earlier update of that memory went through
C18_Witness ==
    /\ recall.op = "update"
    /\ recall.err
    /\ recall.content # ""
    /\ \E r \in memories :
           /\ r.id = recall.id
           /\ r.content # recall.content
           /\ r.importance = 2

\* What RenameCollection(old, new) makes of the given tables
Renamed(colls, docs, fts, cont, old, new) ==
    IF old \notin colls \/ new \in colls
    THEN [collections |-> colls, documents |-> docs, fts |-> fts, err |-> TRUE]
    ELSE RenameTx(colls, docs, fts, cont, old, new)

\* The document rows after rename(A, B) followed by rename(B, A)
RenamedThereAndBack(A, B) ==
    LET there == Renamed(collections, documents, documents_fts, content, A, B)
    IN Renamed(there.collections, there.documents, there.fts, content, B, A).documents

\* C19: for any store state in which collection A exists and no collection
\* named B exists, rename(A,B) followed by rename(B,A) leaves every document
\* row with the same collection, path, hash and active flag it had before.
C19_RenameRoundTripRestoresRows ==
    \A A \in Collections, B \in Collections :
        (A \in collections /\ B \notin collections)
            => RenamedThereAndBack(A, B) = documents

\* C20 as stated: the cache statistics count always equals the number of
\* successful set operations minus the number of entries removed by clears
\* and deletes.
C20_CountIsSetsMinusRemoved ==
    GetCacheStats(llm_cache) = stats.sets - stats.removed

\* C20 (amended): the cache statistics count always equals the number of
\* successful set operations that added a key not yet in the cache, minus the
\* number of entries removed by clears and deletes.
C20_CountIsAddedMinusRemoved ==
    GetCacheStats(llm_cache) = stats.added - stats.removed

\* A key was set twice, entries were removed, and the cache holds an entry
C20_Witness ==
    /\ stats.sets > stats.added
    /\ stats.removed > 0
    /\ GetCacheStats(llm_cache) > 0

-----------------------------------------------------------------------------
(* Chunking and embedding ingest *)

\* One ChunkDocument call on any body of up to MaxBodyLen characters, with
\* any positive chunk size and any overlap.  The loop is sequential code that
\* keeps running, hence the weak fairness.
InitChunk ==
    /\ InitStore
    /\ hist = NoHist
    /\ rrf = NoFusion
    /\ dense = NoSearch
    /\ InitExt
    /\ run = NoRun
    /\ lex = NoLexical
    /\ prefs = NoPrefs
    /\ model = NoModel
    /\ \E str \in ChunkBodies(MaxBodyLen), chunkSize \in 1..MaxChunkSize,
          chunkOverlap \in 0..MaxChunkOverlap :
           chunker = ChunkDocumentEnter(str, chunkSize, chunkOverlap)

NextChunk == ChunkDocumentLoop

SpecChunk == InitChunk /\ [][NextChunk]_vars /\ WF_vars(NextChunk)

\* Embedding runs over documents whose bodies give no chunk, one chunk or two.
NextRun ==
    \/ \E c \in EmbedCollections, p \in Paths, t \in Titles, b \in RunBodies :
           IndexDocumentCheck(c, p, t, b)
    \/ IndexDocumentContent
    \/ IndexDocumentUpsert
    \/ \E ident \in Paths : DeleteDocument(ident)
    \/ \E docs \in Orders(GetDocumentsNeedingEmbedding(documents, content, content_vectors)) :
         \E failAt \in 0..Len(EmbedCalls(docs, 1)) :
           GenerateEmbeddings(docs, failAt)

SpecRun == Init /\ [][NextRun]_vars

\* C21: after an embedding run returns success, the status reports no active
\* document as needing embedding.
C21_SuccessfulRunLeavesNothingToEmbed ==
    (run.done /\ ~run.err) => run.needsEmbedding = 0

StrictlyAdvancing ==
    chunker.pc # "idle" =>
        \A i \in 1..(Len(chunker.chunks) - 1) :
            chunker.chunks[i + 1].Pos > chunker.chunks[i].Pos

\* C22: for every body, positive chunk size and non-negative overlap, the
\* chunking loop ends, and every emitted chunk starts at a strictly greater
\* offset than the chunk before it.
C22_ChunkingTerminatesAndAdvances ==
    <>(chunker.pc = "done") /\ []StrictlyAdvancing

\* a finished call with an overlap no smaller than the chunk size that
\* emitted two chunks
C22_Witness ==
    /\ chunker.pc = "done"
    /\ chunker.chunkOverlap >= chunker.chunkSize
    /\ Len(chunker.chunks) >= 2

ChunkRowsComplete(hash, body) ==
    \A j \in 1..Len(ChunkDocument(body, ChunkSize, ChunkOverlap)) :
        \E v \in content_vectors : v.hash = hash /\ v.seq = j - 1

\* C24: an active document that is not reported as needing embedding has an
\* embedding row for every chunk of its body.
C24_EmbeddedMeansEveryChunk ==
    \A d \in documents : \A c \in content :
        (d.active /\ c.hash = d.hash /\ HasFirstChunkRow(content_vectors, d.hash))
            => ChunkRowsComplete(d.hash, c.doc)

-----------------------------------------------------------------------------
(* Lexical scores *)

\* Lexical searches over documents of one collection, with any raw scores.
NextLexical ==
    \/ \E c \in EmbedCollections, p \in Paths, t \in Titles, b \in Bodies :
           IndexDocumentCheck(c, p, t, b)
    \/ IndexDocumentContent
    \/ IndexDocumentUpsert
    \/ \E ident \in Paths : DeleteDocument(ident)
    \/ \E query \in LexQueries, limit \in 1..MaxLimit,
          collectionFilter \in {""} \cup EmbedCollections :
         \E bm25 \in [SearchFTSHits(documents, documents_fts, content, query,
                                    collectionFilter) -> RawScores] :
           SearchFTS(query, limit, collectionFilter, bm25)

SpecLexical == Init /\ [][NextLexical]_vars

\* C23: among the hits of one lexical search, a hit with a more relevant
\* (more negative) raw BM25 score never has a lower normalized score than a
\* less relevant hit.
C23_MoreRelevantNeverScoresLower ==
    lex.done =>
        \A i, j \in 1..Len(lex.results) :
            lex.results[i].bm25 < lex.results[j].bm25
                => lex.results[i].score >= lex.results[j].score

-----------------------------------------------------------------------------
(* Deleting a document *)

\* the documents a step deactivates
Deactivated ==
    {d \in documents : d.active /\ \E e \in documents' : e.id = d.id /\ ~e.active}

\* C25: deleting a document by an identifier deactivates one document at
\* most: a DeleteDocument step never clears the active flag of two rows.
C25_DeleteDeactivatesOneDocument ==
    [][(/\ last'.op = "delete"
        /\ documents' # documents
        /\ ixPc' = ixPc
        /\ clPc' = clPc) => Cardinality(Deactivated) <= 1]_vars

-----------------------------------------------------------------------------
(* Deleting a memory *)

\* C26: one delete-memory call removes one memory at most, whatever id or id
\* prefix it is given.
C26_DeleteRemovesAtMostOneMemory ==
    recall.op = "delete" => Cardinality(recall.before \ memories) <= 1

-----------------------------------------------------------------------------
(* Expiring memories *)

\* Memories with and without an expiry, sweeps at any instant up to the
\* clock, then a recall with the clock at MaxTime.
NextExpiry ==
    \/ /\ recall.op # "recall"
       /\ \E id \in RecallUUIDs, memType \in StoredTypes, text \in {"x", "y"} :
             Store(id, memType, text, 0, 0, TRUE, MaxMemories)
    \/ /\ recall.op # "recall"
       /\ \E id \in RecallUUIDs, memType \in StoredTypes, text \in {"x", "y"},
             expiresAt \in 0..MaxTime :
             StoreExpiring(id, memType, text, 0, expiresAt, 0, TRUE, MaxMemories)
    \/ /\ recall.op # "recall"
       /\ \E now \in 0..MaxTime : CleanupExpired(now)
    \/ /\ recall.op # "recall"
       /\ \E query \in {"x", "y"}, limit \in 1..2, weight \in BOOLEAN :
             Recall(query,
                    [limit |-> limit, memoryTypes |-> {}, applyDecay |-> FALSE,
                     decayHalflife |-> 1, weightByImportance |-> weight,
                     minRelevance |-> 0],
                    TRUE, MaxTime)

SpecExpiry == Init /\ [][NextExpiry]_vars

\* C27: a memory whose expires_at is earlier than the instant of the recall
\* is not among the memories the recall returns.
C27_ExpiredNeverRecalled ==
    (recall.op = "recall" /\ ~recall.err) =>
        \A i \in 1..Len(recall.results) :
            \A r \in recall.before :
                r.id = recall.results[i].id => ~IsExpired(r, recall.now)

-----------------------------------------------------------------------------
(* Preferences *)

\* Preference records and updates, with a clock that stands still or
\* advances between two calls.
NextPreference ==
    \/ \E id \in RecallUUIDs, category \in Categories, key \in PrefKeys,
          value \in PrefValues, tick \in 0..1, embedOk \in BOOLEAN :
           RecordPreference(id, category, key, value, tick, embedOk)
    \/ \E mems \in GetMemoriesByType(memories, "preference") :
         \E id \in RecallUUIDs, category \in Categories, key \in PrefKeys,
            newValue \in PrefValues, tick \in 0..1, embedOk \in BOOLEAN :
           UpdatePreference(mems, id, category, key, newValue, tick, embedOk)

SpecPreference == Init /\ [][NextPreference]_vars

\* C28: after any sequence of preference records and updates, the
\* all-preferences view holds for every (category, key) the value recorded
\* last, which is also what the exact single-preference lookup returns.
C28_AllPreferencesReportsLatest ==
    \A mems \in GetMemoriesByType(memories, "preference") :
        \A ck \in PrefIdents :
            prefs.latest[ck] # "" =>
                /\ ck \in DOMAIN GetAllPreferences(mems)
                /\ GetAllPreferences(mems)[ck] = prefs.latest[ck]
                /\ getPreferenceExact(mems, ck[1], ck[2]) = prefs.latest[ck]

-----------------------------------------------------------------------------
(* Documents with identical bodies *)

\* Ingest and embedding stores, then one lexical and one dense search over
\* the store they left.
NextTwins ==
    \/ /\ ~lex.done /\ dense = NoSearch
       /\ \E c \in EmbedCollections, p \in Paths, t \in Titles, b \in Bodies :
              IndexDocumentCheck(c, p, t, b)
    \/ /\ ~lex.done /\ dense = NoSearch
       /\ IndexDocumentContent
    \/ /\ ~lex.done /\ dense = NoSearch
       /\ IndexDocumentUpsert
    \/ /\ ~lex.done /\ dense = NoSearch
       /\ \E hash \in Hashes, embedding \in EmbedVectors :
              StoreEmbedding(hash, 0, embedding)
    \/ /\ ~lex.done
       /\ \E query \in LexQueries, limit \in 1..MaxLimit :
            \E bm25 \in [SearchFTSHits(documents, documents_fts, content, query, "")
                            -> RawScores] :
              SearchFTS(query, limit, "", bm25)
    \/ /\ dense = NoSearch
       /\ \E embedding \in EmbedVectors, limit \in 1..MaxLimit :
              SearchVector(embedding, limit, "")

SpecTwins == Init /\ [][NextTwins]_vars

\* pairs of distinct active documents with one body
Twins ==
    {pair \in documents \X documents :
        /\ pair[1].id # pair[2].id
        /\ pair[1].active /\ pair[2].active
        /\ pair[1].hash = pair[2].hash}

\* the documents with an entry of their own in a lexical result list
LexicalEntries(results) ==
    {<<results[i].collection, results[i].path>> : i \in 1..Len(results)}

\* the number of entries of a result list that stand for documents of a hash
EntriesOf(results, hash) ==
    Cardinality({i \in 1..Len(results) : results[i].id = hash})

\* the lexical search found both documents, and the limit admits two results
InLexical(pair) ==
    /\ lex.done /\ lex.limit >= 2
    /\ {pair[1], pair[2]} \subseteq
          SearchFTSHits(documents, documents_fts, content, lex.query,
                        lex.collectionFilter)

\* the dense search had the documents' embedding among its candidates, and
\* the limit admits two results
InDense(pair) == dense.limit >= 2 /\ pair[1].hash \in DOMAIN dense.seen

\* C29: two distinct active documents with identical bodies each have their
\* own entry in the lexical results, in the dense results, and in the fusion
\* of the two lists.
C29_TwinsKeepTheirOwnEntries ==
    \A pair \in Twins :
        /\ InLexical(pair) =>
              {<<pair[1].collection, pair[1].path>>,
               <<pair[2].collection, pair[2].path>>} \subseteq LexicalEntries(lex.results)
        /\ InDense(pair) => EntriesOf(dense.results, pair[1].hash) >= 2
        /\ (InLexical(pair) /\ InDense(pair)) =>
              \A ranking \in ReciprocalRankFusion(<<lex.results, dense.results>>,
                                                  <<1, 1>>, DefaultRRFK) :
                  Cardinality({i \in 1..Len(ranking) : ranking[i] = pair[1].hash}) >= 2

-----------------------------------------------------------------------------
(* The model runtime *)

\* Two Embed callers, one Rerank and one Generate caller, the idle timers
\* and Close, as goroutines of one process.
NextModel ==
    \/ \E c \in Callers : loadModel(c)
    \/ \E c \in Callers : readModel(c)
    \/ \E c \in Callers : predictBegin(c)
    \/ \E c \in Callers, ok \in BOOLEAN : predictEnd(c, ok)
    \/ \E c \in Callers : touchModel(c)
    \/ \E t \in ModelTypes : unloadModelLock(t)
    \/ \E t \in ModelTypes : unloadModelUnlock(t)
    \/ CloseLock
    \/ CloseUnlock

SpecModel == Init /\ [][NextModel]_vars

\* C30: use of a loaded model is serialized: no two operations (an embed,
\* rerank or generate call, the Free of the idle timer or of Close) are at
\* work on the same model at the same time.
C30_ModelUseIsSerialized ==
    \A o1 \in ModelOperations, o2 \in ModelOperations :
        (o1[2] = o2[2] /\ o1[3] = o2[3]) => o1 = o2

====
